---- MODULE Spec2Model ----
(***************************************************************************)
(* The concurrent batch acquisition engine of the stock data manager       *)
(* (src/src/data_manager.py), the provider adapter it calls                *)
(* (src/src/data_client.py) and the parallel loader of the selector        *)
(* (src/src/stock_selector.py).                                            *)
(*                                                                         *)
(* Instruments are the codes 1..N in the order of the sorted listing.      *)
(* Dates are day numbers.  A DataFrame is a record: its rows (bars), and   *)
(* whether it carries the date column and the close column the code looks  *)
(* for.  The high/low columns the indicator pipeline reads are taken to be *)
(* present and numeric.                                                    *)
(***************************************************************************)
EXTENDS Integers, Sequences, FiniteSets, TLC

VARIABLES
    engine,            \* "manager" (StockDataManager) or "selector" (StockSelector)
    today,             \* datetime.now(), as a day number
    metadata,          \* self.metadata
    files,             \* all_market_data_<date>.pkl: date key -> pickled accumulator
    pc,                \* position of the driver thread
    stocks,            \* the DataFrame of instruments the run works on
    batch_size,
    max_workers,
    end_date,          \* end_date / analysis_date argument, None_ when not given
    i,                 \* loop variable of "for i in range(0, len(stocks), batch_size)"
    task,              \* code -> the future of its fetch task
    cur,               \* the future as_completed has just yielded
    batch_data,        \* accumulator of _process_batch_threaded (mapping)
    failed_stocks,     \* accumulator of _process_batch_threaded (failure list)
    all_data,          \* run-level mapping
    all_failed,        \* run-level failure list
    successful_count,
    lock,              \* self._lock: "free" or the thread holding it
    result             \* what the run returned

vars == <<engine, today, metadata, files, pc, stocks, batch_size, max_workers,
          end_date, i, task, cur, batch_data, failed_stocks, all_data,
          all_failed, successful_count, lock, result>>

(* ---------------------------------------------------------------- bounds *)
MaxStocks == 3      \* size of the listed universe
MaxBatch == 2       \* batch_size argument
MaxWorkers == 2     \* max_workers argument
Today == 2          \* the day number of today (a Wednesday)
RunBars == 2        \* rows of an instrument's history in a whole run
MaxRuns == 11       \* runs of a sequence of daily runs
MaxKeep == 2        \* keep_days argument
MaxBars == 2        \* rows of a provider answer in a single-instrument run
MaxLoaded == 2      \* instruments of the mapping handed to the strategy
MaxSelected == 3    \* rows of the DataFrame the strategy returned
MaxRaw == 3         \* rows of the raw listing of the provider
MaxReruns == 2      \* runs recorded in one data directory by successive processes
MaxSeries == 9      \* bars of a series handed to the indicator calculation
MaxCalls == 2       \* calls of the indicator calculation on one series

(* ------------------------------------------------------------- constants *)
None_ == 0          \* Python None (end_date / last_update not given)
NaN == -1000        \* numpy.nan
NaT == -1           \* pandas NaT, what errors='coerce' makes of a bad date
FullCount == 300    \* count of the first get_daily_data call
ReducedCount == 100 \* count of the second get_daily_data call
\* mutant: range(3)
AttemptsThree == 2 + 1
Attempts == 2       \* range(2) of the fetch task
Requests == 2       \* range(2) of the adapter
JMax == 13          \* cond1: J <= 13
ZFMin == -20        \* cond2: -2 <= ZF, in tenths of a percent
ZFMax == 18         \* cond2: ZF <= 1.8, in tenths of a percent
RangeMax == 7       \* cond3: range <= 7
RsvWindow == 9      \* rolling(window=9) of the KDJ indicator
Inf == 2000         \* float inf, x / 0 for x > 0
NegInf == -2000     \* float -inf, x / 0 for x < 0

\* the dates a bar of the model can carry, and the as-of dates of a run
Dates == {Today - 1, Today}
AsOfDates == {None_} \cup Dates
Closes == {NaN, 0, 1}

(* ------------------------------------------------------------ DataFrames *)
SeqsUpTo(S, n) == UNION {[1..k -> S] : k \in 0..n}

Bar(D) == [date : D, close : Closes]

Frames(n, D) == [bars : SeqsUpTo(Bar(D), n), hasDate : BOOLEAN, hasClose : BOOLEAN]

\* the n daily bars up to day d, every close 1
History(n, d) == [k \in 1..n |-> [date |-> d - n + k, close |-> 1]]

\* pd.DataFrame()
EmptyFrame == [bars |-> <<>>, hasDate |-> FALSE, hasClose |-> FALSE]

\* What one call of self.client.bars can do: raise, return None, return a frame.
Responses(F) ==
    {[kind |-> k, frame |-> EmptyFrame] : k \in {"raise", "none"}}
        \cup {[kind |-> "frame", frame |-> f] : f \in F}

\* Any frame of at most MaxBars rows: bars in any order, closes valid or not,
\* with or without the two columns. A bar's date is the day it was traded;
\* NaT is a cell of the date column that pd.to_datetime cannot read, so only a
\* frame that has the column can carry it.
AnyFrames ==
    {f \in Frames(MaxBars, Dates \cup {NaT}) :
        ~f.hasDate => \A k \in 1..Len(f.bars) : f.bars[k].date # NaT}

AnyResponses == Responses(AnyFrames)

\* The answers of a source that holds the same RunBars-day history of every
\* instrument and names its columns as mootdx does (no date column): the
\* history or nothing, with or without the close column.
HistoryResponses ==
    Responses([bars : {<<>>, History(RunBars, Today)}, hasDate : {FALSE},
               hasClose : BOOLEAN])

empty(data) == Len(data.bars) = 0

notna(x) == x # NaN

latest_close(data) == data.bars[Len(data.bars)].close

\* data_client.py 131-147: the answer get_daily_data returns from inside its loop
ValidBars(resp) ==
    /\ resp.kind = "frame"
    /\ ~empty(resp.frame)
    /\ resp.frame.hasClose
    /\ notna(latest_close(resp.frame))
    /\ latest_close(resp.frame) > 0

\* data_manager.py 467-475: the as-of filter of the fetch task
FilterByDate(data, date) ==
    LET Keep(b) == b.date # NaT /\ b.date <= date
    IN  IF ~empty(data) /\ date # None_ /\ data.hasDate
        THEN [data EXCEPT !.bars = SelectSeq(data.bars, Keep)]
        ELSE data

\* data_manager.py 477-481: the quality check of the fetch task
QualityOk(data) ==
    /\ ~empty(data)
    /\ data.hasClose
    /\ Len(data.bars) > 0
    /\ notna(latest_close(data))
    /\ latest_close(data) > 0

(* ------------------------------------------------------------ fetch task *)
\* The dict a fetch task returns (data_manager.py 494-497, 509-518), with the
\* fields of stock_info the run reads; name, market and update_time are left out.
Success(data, date) ==
    [success |-> TRUE, error |-> "", data |-> data,
     data_count |-> Len(data.bars), end_date |-> date]

Failure(reason) ==
    [success |-> FALSE, error |-> reason, data |-> EmptyFrame,
     data_count |-> 0, end_date |-> None_]

NoResult == Failure("pending")

\* A future: its state, the batch it was submitted in, the position of its
\* thread (attempt of the task, request of the adapter), the count argument of
\* each get_daily_data call it made, what the last call returned, and its result.
IdleTask ==
    [st |-> "idle", batch |-> 0, attempt |-> 0, req |-> 0,
     counts |-> <<>>, fetched |-> EmptyFrame, res |-> NoResult]

Codes == 1..Len(stocks)

Running == {c \in Codes : task[c].st = "running"}

\* mutant: the pool starts a thread for every submitted task
WorkerFreeAlways == TRUE

\* ThreadPoolExecutor(max_workers): a queued task starts when a worker is free
WorkerFree == Cardinality(Running) < max_workers

\* stock_selector.py 19: the periods m1..m4 the selector is constructed with
M == <<1, 1, 2, 2>>

\* stock_selector.py 54
MaxPeriod == CHOOSE m \in {M[k] : k \in 1..4} : \A k \in 1..4 : M[k] <= m

\* stock_selector.py 55
DataCount == MaxPeriod + 30

\* data_manager.py 459-464, stock_selector.py 265: the count argument
CountOf(attempt) ==
    IF engine = "selector" THEN DataCount
    ELSE IF attempt = 0 THEN FullCount ELSE ReducedCount

\* data_manager.py 490: the end_date recorded in the info of a stored series
InfoDate == IF end_date # None_ THEN end_date ELSE today

\* data_manager.py 466-512: what the manager's task does with the answer of
\* one get_daily_data call: filter, check, return or go on to the next attempt.
DownloadSingleStockSafe(t, data) ==
    LET filtered == FilterByDate(data, end_date)
    IN  IF QualityOk(filtered)
        THEN [t EXCEPT !.st = "finished", !.res = Success(filtered, InfoDate)]
        ELSE IF t.attempt + 1 < Attempts
             THEN [t EXCEPT !.attempt = @ + 1, !.req = 0]
             ELSE [t EXCEPT !.st = "finished", !.res = Failure("nodata")]

\* stock_selector.py 195-205 on bars whose high and low equal the close: the
\* latest row has J, ZF, the range and both trend lines defined.  The long
\* trend needs MaxPeriod closes, ZF and the range the previous close (a
\* previous close of 0 makes the range 0/0); J is built on fillna(0) and the
\* short trend skips missing closes.
AllValid(data) ==
    LET n == Len(data.bars)
        close(k) == data.bars[k].close
    IN  /\ n >= MaxPeriod
        /\ \A k \in (n - MaxPeriod + 1)..n : notna(close(k))
        /\ n >= 2
        /\ notna(close(n))
        /\ notna(close(n - 1))
        /\ close(n - 1) # 0

\* stock_selector.py 193-227: the result of the selector's task for the series
\* _get_stock_data_for_date_thread_safe returned (a frame without the close
\* column makes the pipeline raise)
LoadResult(data) ==
    IF empty(data) THEN Failure("nodata")
    ELSE IF ~data.hasClose THEN Failure("exception")
    ELSE IF AllValid(data) THEN Success(data, None_)
    ELSE Failure("indicator")

\* stock_selector.py 264-279, 193-221: what the selector's task does with the
\* answer of its one get_daily_data call
LoadSingleStockSafe(t, data) ==
    [t EXCEPT !.st = "finished", !.res = LoadResult(FilterByDate(data, end_date))]

AfterFetch(t, data) ==
    LET seen == [t EXCEPT !.fetched = data]
    IN  IF engine = "manager" THEN DownloadSingleStockSafe(seen, data)
        ELSE LoadSingleStockSafe(seen, data)

\* data_client.py 123-156: one pass of the adapter's loop on one answer of the
\* source: return the frame, try once more, or return an empty frame.
AdapterStep(t, resp) ==
    LET called == IF t.req = 0
                  THEN [t EXCEPT !.counts = Append(@, CountOf(t.attempt))]
                  ELSE t
    IN  IF ValidBars(resp)
        THEN AfterFetch(called, resp.frame)
        ELSE IF t.req + 1 < Requests
             THEN [called EXCEPT !.req = @ + 1]
             ELSE AfterFetch(called, EmptyFrame)

\* mutant: a local file with fewer than data_count bars is not used
LocalDataFullOnly(local) ==
    IF local.kind = "frame" /\ ~empty(local.frame) /\ local.frame.hasDate
    THEN LET df == FilterByDate(local.frame, end_date)
             n == Len(df.bars)
         IN  IF n >= DataCount
             THEN [df EXCEPT !.bars = SubSeq(@, n - DataCount + 1, n)]
             ELSE EmptyFrame
    ELSE EmptyFrame

\* stock_selector.py 245-262: the series taken from the local file of the
\* instrument, an empty frame when the task has to go online.  The file is
\* absent ("none") or holds a frame.
LocalData(local) ==
    IF local.kind = "frame" /\ ~empty(local.frame) /\ local.frame.hasDate
    THEN LET df == FilterByDate(local.frame, end_date)
             n == Len(df.bars)
         IN  IF n >= DataCount
             THEN [df EXCEPT !.bars = SubSeq(@, n - DataCount + 1, n)]
             ELSE IF n > 0 THEN df ELSE EmptyFrame
    ELSE EmptyFrame

\* A worker thread picks up a submitted task and constructs its own client
\* (data_manager.py 450-453, stock_selector.py 183-186), which can raise
\* (514-518, 223-227).  The selector's task then reads the local file: it
\* returns on a usable file (243-262) and on an unreadable one (281-282).
StartedTask(t, ok, local) ==
    IF ~ok THEN [t EXCEPT !.st = "finished", !.res = Failure("exception")]
    ELSE IF engine = "manager" THEN [t EXCEPT !.st = "running"]
    ELSE IF local.kind = "raise"
         THEN [t EXCEPT !.st = "finished", !.res = LoadResult(EmptyFrame)]
    ELSE IF ~empty(LocalData(local))
         THEN [t EXCEPT !.st = "finished", !.res = LoadResult(LocalData(local))]
    ELSE [t EXCEPT !.st = "running"]

NoFile == [kind |-> "none", frame |-> EmptyFrame]

TaskStart(c, ok, local) ==
    /\ c \in Codes
    /\ task[c].st = "queued"
    /\ WorkerFree
    /\ engine = "manager" => local = NoFile
    /\ task' = [task EXCEPT ![c] = StartedTask(@, ok, local)]
    /\ UNCHANGED <<engine, today, metadata, files, pc, stocks, batch_size,
                   max_workers, end_date, i, cur, batch_data, failed_stocks,
                   all_data, all_failed, successful_count, lock, result>>

\* One request of a running task to the source, and all the task does until
\* its next request or its return.
ProviderRequest(c, resp) ==
    /\ c \in Codes
    /\ task[c].st = "running"
    /\ task' = [task EXCEPT ![c] = AdapterStep(@, resp)]
    /\ UNCHANGED <<engine, today, metadata, files, pc, stocks, batch_size,
                   max_workers, end_date, i, cur, batch_data, failed_stocks,
                   all_data, all_failed, successful_count, lock, result>>

(* ----------------------------------------------------- freshness policy *)
weekday(d) == d % 7     \* 0 = Monday ... 5 = Saturday, 6 = Sunday

\* mutant: no day is a trading day
IsTradingDayNever(d) == weekday(d) < 0

\* data_manager.py 95-110
IsTradingDay(d) == weekday(d) < 5

\* mutant: no update on a weekend, whatever the metadata records
ShouldUpdateDataWeekdaysOnly(meta, now) ==
    IF ~IsTradingDay(now) THEN FALSE
    ELSE meta.last_update = None_ \/ meta.last_update < now

\* mutant: data of today is stale on a weekday
ShouldUpdateDataStaleToday(meta, now) ==
    IF meta.last_update = None_ THEN TRUE
    ELSE IF ~IsTradingDay(now)
         THEN LET back == {k \in 1..7 : IsTradingDay(now - k)}
              IN  IF back = {} THEN FALSE
                  ELSE LET k == CHOOSE x \in back : \A y \in back : x <= y
                       IN  ~(meta.last_update >= now - k)
         ELSE meta.last_update <= now

\* mutant: on a weekend the last update is compared with the day before
ShouldUpdateDataYesterday(meta, now) ==
    IF meta.last_update = None_ THEN TRUE
    ELSE IF ~IsTradingDay(now) THEN ~(meta.last_update >= now - 1)
    ELSE meta.last_update < now

\* data_manager.py 112-142 (the bool of the returned pair)
ShouldUpdateData(meta, now) ==
    IF meta.last_update = None_ THEN TRUE
    ELSE IF ~IsTradingDay(now)
         THEN LET back == {k \in 1..7 : IsTradingDay(now - k)}
              IN  IF back = {} THEN FALSE
                  ELSE LET k == CHOOSE x \in back : \A y \in back : x <= y
                       IN  ~(meta.last_update >= now - k)
         ELSE meta.last_update < now

\* data_manager.py 112-142 (the reason of the returned pair, by the return
\* statement that gives it: 115, 129, 131, 132, 136, 138)
UpdateReason(meta, now) ==
    IF meta.last_update = None_ THEN "first"
    ELSE IF ~IsTradingDay(now)
         THEN LET back == {k \in 1..7 : IsTradingDay(now - k)}
              IN  IF back = {} THEN "undetermined"
                  ELSE LET k == CHOOSE x \in back : \A y \in back : x <= y
                       IN  IF meta.last_update >= now - k THEN "fresh_weekend"
                           ELSE "stale_weekend"
         ELSE IF meta.last_update < now THEN "stale" ELSE "fresh"

(* ---------------------------------------------------------------- driver *)
EmptyMap == << >>

\* data_manager.py 73-80.  failed_stocks is a list there and an int after a run
\* (316): the value is kept with its type.
DefaultMetadata ==
    [last_update |-> None_, stock_count |-> 0, update_history |-> <<>>,
     successful_stocks |-> None_, failed_stocks |-> <<"list", <<>>>>]

\* The data directory: the list file and the snapshot file of each date key,
\* the date keys of the snapshot files that cannot be unpickled, the
\* <<code, date key>> of each per-instrument .pkl file of stocks/, and
\* metadata.json as _load_metadata reads it (the default when there is no
\* file).
NoFiles ==
    [list |-> EmptyMap, snap |-> EmptyMap, corrupt |-> {}, stock |-> {},
     meta |-> DefaultMetadata]

\* data_manager.py 82-89: _save_metadata writes the metadata; a failed write is
\* logged and leaves the file as it was
SaveMetadata(f, meta, saved) == IF saved THEN [f EXCEPT !.meta = meta] ELSE f

\* mutant: the loop is left at the first batch that had a failure
LoopDoneOnFailure == i >= Len(stocks) \/ all_failed # <<>>

\* data_manager.py 257 / stock_selector.py 65: range(0, len(stocks), batch_size)
\* is exhausted
LoopDone == i >= Len(stocks)

\* mutant: the slice starts one row late
BatchCodesShifted == {c \in Codes : i + 1 < c /\ c <= i + batch_size + 1}

\* data_manager.py 258 / stock_selector.py 66: stocks.iloc[i:i+batch_size]
BatchCodes == {c \in Codes : i < c /\ c <= i + batch_size}

\* mutant: the batch returns at the first handled future
BatchDoneAtFirst == \E c \in BatchCodes : task[c].st = "collected"

\* mutant: the batch waits for every instrument of the universe
BatchDoneWholeUniverse == \A c \in Codes : task[c].st = "collected"

\* the body of "with ThreadPoolExecutor(...)" is left when every future of the
\* batch has been yielded by as_completed and handled
BatchDone == \A c \in BatchCodes : task[c].st = "collected"

\* result['data'] as stored in the accumulator
Stored(res) == [data |-> res.data, data_count |-> res.data_count, end_date |-> res.end_date]

\* mutant: when the file of the key cannot be used, another snapshot is
\* returned
UnpickleAny(key) ==
    IF key \in DOMAIN files.snap /\ key \notin files.corrupt THEN files.snap[key]
    ELSE IF DOMAIN files.snap # {}
         THEN files.snap[CHOOSE d \in DOMAIN files.snap : TRUE]
         ELSE EmptyMap

\* data_manager.py 525-535, 548-556: the snapshot file of the key is there and
\* pickle.load returns its mapping, or the result is {}
Unpickle(key) ==
    IF key \in DOMAIN files.snap /\ key \notin files.corrupt THEN files.snap[key]
    ELSE EmptyMap

\* data_manager.py 520-535
LoadExistingData == Unpickle(today)

\* mutant: the cap is never applied
HeadSizeUncapped(n, max_stocks) == n

\* data_manager.py 240-241: stocks.head(max_stocks) on a listing of n instruments
HeadSize(n, max_stocks) ==
    IF max_stocks # None_ /\ max_stocks > 0
    THEN (IF max_stocks < n THEN max_stocks ELSE n)
    ELSE n

\* The answers of the provider for one exchange segment: it raises (ok false)
\* or returns a table of which n rows pass the filter of tradable instruments.
Segments(maxN) == [ok : BOOLEAN, n : 0..maxN]

\* mutant: a segment that raised is left out and the other one is used
GetStockListPartial(stocks_sh, stocks_sz) ==
    (IF stocks_sh.ok THEN stocks_sh.n ELSE 0) + (IF stocks_sz.ok THEN stocks_sz.n ELSE 0)

\* data_client.py 21-41: get_stock_list asks for both segments inside one try;
\* the size of the filtered listing, 0 (an empty table) when either call raised
GetStockList(stocks_sh, stocks_sz) ==
    IF stocks_sh.ok /\ stocks_sz.ok THEN stocks_sh.n + stocks_sz.n ELSE 0

\* data_manager.py 144-183: the size of the listing get_all_stocks returns, from
\* the list file of today if there is one and no update is forced, else from
\* the provider (listed; 0 when the listing failed)
ListingSize(force_update, listed) ==
    IF ~force_update /\ today \in DOMAIN files.list THEN files.list[today] ELSE listed

StartBatches(n, bs, mw, ed) ==
    /\ stocks' = [c \in 1..n |-> c]
    /\ batch_size' = bs
    /\ max_workers' = mw
    /\ end_date' = ed
    /\ i' = 0
    /\ task' = [c \in 1..n |-> IdleTask]
    /\ batch_data' = EmptyMap
    /\ failed_stocks' = <<>>
    /\ all_data' = EmptyMap
    /\ all_failed' = <<>>
    /\ successful_count' = 0
    /\ pc' = "submit"

\* data_manager.py 205-253: download_all_market_data up to the batch loop
DownloadAllMarketData(force_update, max_stocks, bs, mw, ed, listed, saved) ==
    /\ engine = "manager"
    /\ pc = "start"
    /\ LET need_update == ShouldUpdateData(metadata, today)
           existing_data == LoadExistingData
           fetched == force_update \/ today \notin DOMAIN files.list
           n == ListingSize(force_update, listed)
       IN  IF ~need_update /\ ~force_update /\ ed = None_ /\ existing_data # EmptyMap
           THEN /\ pc' = "done"
                /\ result' = existing_data
                /\ UNCHANGED <<metadata, files, stocks, batch_size, max_workers,
                               end_date, i, task, batch_data, failed_stocks,
                               all_data, all_failed, successful_count>>
           ELSE /\ IF fetched /\ n > 0
                   THEN /\ metadata' = [metadata EXCEPT !.stock_count = n]
                        /\ files' = SaveMetadata([files EXCEPT !.list = (today :> n) @@ @],
                                                 metadata', saved)
                   ELSE UNCHANGED <<files, metadata>>
                /\ IF n = 0
                   THEN /\ pc' = "done"
                        /\ result' = EmptyMap
                        /\ UNCHANGED <<stocks, batch_size, max_workers, end_date, i,
                                       task, batch_data, failed_stocks, all_data,
                                       all_failed, successful_count>>
                   ELSE /\ StartBatches(HeadSize(n, max_stocks), bs, mw, ed)
                        /\ UNCHANGED result
    /\ UNCHANGED <<engine, today, cur, lock>>

\* stock_selector.py 37-63: load_stocks_data_parallel up to the batch loop
LoadStocksDataParallel(n, bs, mw, ed) ==
    /\ engine = "selector"
    /\ pc = "start"
    /\ StartBatches(n, bs, mw, ed)
    /\ UNCHANGED <<engine, today, metadata, files, cur, lock, result>>

\* data_manager.py 257-265, 397-410 / stock_selector.py 65-75, 131-146: the next
\* iteration of the batch loop submits one task per instrument of the batch
SubmitBatch ==
    /\ pc = "submit"
    /\ ~LoopDone
    /\ task' = [c \in Codes |->
                  IF c \in BatchCodes
                  THEN [IdleTask EXCEPT !.st = "queued", !.batch = (i \div batch_size) + 1]
                  ELSE task[c]]
    /\ batch_data' = EmptyMap
    /\ failed_stocks' = <<>>
    /\ pc' = "as_completed"
    /\ UNCHANGED <<engine, today, metadata, files, stocks, batch_size, max_workers,
                   end_date, i, cur, all_data, all_failed, successful_count, lock,
                   result>>

\* data_manager.py 414-419 / stock_selector.py 150-155: as_completed yields a
\* finished future and the driver reads its result
AsCompleted(c) ==
    /\ pc = "as_completed"
    /\ c \in BatchCodes
    /\ task[c].st = "finished"
    /\ cur' = c
    /\ pc' = "result"
    /\ UNCHANGED <<engine, today, metadata, files, stocks, batch_size, max_workers,
                   end_date, i, task, batch_data, failed_stocks, all_data,
                   all_failed, successful_count, lock, result>>

\* "with self._lock:" is entered: data_manager.py 421, 425 (per result) and
\* stock_selector.py 79 (per batch)
AcquireLock ==
    /\ lock = "free"
    /\ \/ engine = "manager" /\ pc = "result" /\ pc' = "locked"
       \/ engine = "selector" /\ pc = "merge" /\ pc' = "merge_locked"
    /\ lock' = "main"
    /\ UNCHANGED <<engine, today, metadata, files, stocks, batch_size, max_workers,
                   end_date, i, task, cur, batch_data, failed_stocks, all_data,
                   all_failed, successful_count, result>>

\* data_manager.py 422 / stock_selector.py 157: batch_data[code] = result['data']
PutData(acc, code, res) == (code :> Stored(res)) @@ acc

\* mutant: a failed instrument is not recorded
PutFailedDropped(failed, code) == failed

\* data_manager.py 426 / stock_selector.py 160: failed_stocks.append(code)
PutFailed(failed, code) == Append(failed, code)

\* mutant: the manager writes without entering the lock
RecordAtUnlocked == "result"

\* the position at which the driver writes the result of cur into the batch
\* accumulator: inside the lock in the manager (421-426), outside in the
\* selector (156-160)
RecordAt == IF engine = "manager" THEN "locked" ELSE "result"

\* data_manager.py 420-427 / stock_selector.py 156-161: the result of the
\* yielded future goes into the mapping or onto the failure list
RecordResult ==
    /\ pc = RecordAt
    /\ IF task[cur].res.success
       THEN /\ batch_data' = PutData(batch_data, cur, task[cur].res)
            /\ UNCHANGED failed_stocks
       ELSE /\ failed_stocks' = PutFailed(failed_stocks, cur)
            /\ UNCHANGED batch_data
    /\ task' = [task EXCEPT ![cur] =
                  [IdleTask EXCEPT !.st = "collected", !.batch = task[cur].batch,
                                   !.res = [NoResult EXCEPT !.success = task[cur].res.success]]]
    /\ lock' = "free"
    /\ pc' = "as_completed"
    /\ UNCHANGED <<engine, today, metadata, files, stocks, batch_size, max_workers,
                   end_date, i, cur, all_data, all_failed, successful_count, result>>

\* data_manager.py 434 / stock_selector.py 167: the pool is shut down and the
\* batch returns its two accumulators
ExecutorExit ==
    /\ pc = "as_completed"
    /\ BatchDone
    /\ pc' = "merge"
    /\ UNCHANGED <<engine, today, metadata, files, stocks, batch_size, max_workers,
                   end_date, i, task, cur, batch_data, failed_stocks, all_data,
                   all_failed, successful_count, lock, result>>

\* the position at which the driver merges a batch into the run's accumulator:
\* outside the lock in the manager (268-271), inside in the selector (79-82)
MergeAt == IF engine = "manager" THEN "merge" ELSE "merge_locked"

\* data_manager.py 268-271 / stock_selector.py 79-82, and the loop's increment
MergeBatch ==
    /\ pc = MergeAt
    /\ all_data' = batch_data @@ all_data
    /\ all_failed' = all_failed \o failed_stocks
    /\ successful_count' = successful_count + Cardinality(DOMAIN batch_data)
    /\ i' = i + batch_size
    /\ lock' = "free"
    /\ pc' = "submit"
    /\ UNCHANGED <<engine, today, metadata, files, stocks, batch_size, max_workers,
                   end_date, task, cur, batch_data, failed_stocks, result>>

\* mutant: the key is today whatever the as-of date
DataDateToday == today

\* data_manager.py 294-297
DataDate == IF end_date # None_ THEN end_date ELSE today

\* the loop is over; stock_selector.py 100-116: the loader returns its mapping
LoaderReturn ==
    /\ engine = "selector"
    /\ pc = "submit"
    /\ LoopDone
    /\ pc' = "done"
    /\ result' = all_data
    /\ UNCHANGED <<engine, today, metadata, files, stocks, batch_size, max_workers,
                   end_date, i, task, cur, batch_data, failed_stocks, all_data,
                   all_failed, successful_count, lock>>

\* mutant: a failed write ends the run with nothing returned
SaveSnapshotFatal(ok) ==
    /\ engine = "manager"
    /\ pc = "submit"
    /\ LoopDone
    /\ files' = IF ok
                THEN [files EXCEPT !.snap = (DataDate :> all_data) @@ @,
                                   !.corrupt = @ \ {DataDate}]
                ELSE files
    /\ pc' = IF ok THEN "meta" ELSE "done"
    /\ UNCHANGED <<engine, today, metadata, stocks, batch_size, max_workers,
                   end_date, i, task, cur, batch_data, failed_stocks, all_data,
                   all_failed, successful_count, lock, result>>

\* mutant: the accumulator is merged into the snapshot the key already has
SaveSnapshotMerged(ok) ==
    /\ engine = "manager"
    /\ pc = "submit"
    /\ LoopDone
    /\ files' = IF ok
                THEN [files EXCEPT !.snap = (DataDate :> (all_data @@ Unpickle(DataDate))) @@ @,
                                   !.corrupt = @ \ {DataDate}]
                ELSE files
    /\ pc' = "meta"
    /\ UNCHANGED <<engine, today, metadata, stocks, batch_size, max_workers,
                   end_date, i, task, cur, batch_data, failed_stocks, all_data,
                   all_failed, successful_count, lock, result>>

\* data_manager.py 293-306: the accumulator is pickled under the date key; a
\* failed write is logged and the run goes on
SaveSnapshot(ok) ==
    /\ engine = "manager"
    /\ pc = "submit"
    /\ LoopDone
    /\ files' = IF ok
                THEN [files EXCEPT !.snap = (DataDate :> all_data) @@ @,
                                   !.corrupt = @ \ {DataDate}]
                ELSE files
    /\ pc' = "meta"
    /\ UNCHANGED <<engine, today, metadata, stocks, batch_size, max_workers,
                   end_date, i, task, cur, batch_data, failed_stocks, all_data,
                   all_failed, successful_count, lock, result>>

\* mutant: the entry counts the listed universe, not the processed one
HistoryEntryListed ==
    [date |-> DataDate, total_stocks |-> metadata.stock_count,
     successful |-> successful_count, failed |-> Len(all_failed),
     is_historical |-> (end_date # None_), target_date |-> DataDate]

\* data_manager.py 317-325: the entry appended to update_history (the duration,
\* a wall-clock difference, is left out)
HistoryEntry ==
    [date |-> DataDate, total_stocks |-> Len(stocks), successful |-> successful_count,
     failed |-> Len(all_failed), is_historical |-> (end_date # None_),
     target_date |-> DataDate]

\* mutant: the oldest ten entries are kept
First10(h) == IF Len(h) > 10 THEN SubSeq(h, 1, 10) ELSE h

\* data_manager.py 327-329
Last10(h) == IF Len(h) > 10 THEN SubSeq(h, Len(h) - 9, Len(h)) ELSE h

\* mutant: a run that acquired nothing leaves last_update as it was
UpdateMetadataIfAny(saved) ==
    /\ pc = "meta"
    /\ metadata' = [metadata EXCEPT
                      !.last_update = IF successful_count > 0 THEN DataDate ELSE @,
                      !.successful_stocks = successful_count,
                      !.failed_stocks = <<"int", Len(all_failed)>>,
                      !.update_history = Last10(Append(@, HistoryEntry))]
    /\ files' = SaveMetadata(files, metadata', saved)
    /\ result' = all_data
    /\ pc' = "done"
    /\ UNCHANGED <<engine, today, stocks, batch_size, max_workers, end_date,
                   i, task, cur, batch_data, failed_stocks, all_data, all_failed,
                   successful_count, lock>>

\* data_manager.py 308-348: the metadata is updated and saved, the run returns
UpdateMetadata(saved) ==
    /\ pc = "meta"
    /\ metadata' = [metadata EXCEPT
                      !.last_update = DataDate,
                      !.successful_stocks = successful_count,
                      !.failed_stocks = <<"int", Len(all_failed)>>,
                      !.update_history = Last10(Append(@, HistoryEntry))]
    /\ files' = SaveMetadata(files, metadata', saved)
    /\ result' = all_data
    /\ pc' = "done"
    /\ UNCHANGED <<engine, today, stocks, batch_size, max_workers, end_date,
                   i, task, cur, batch_data, failed_stocks, all_data, all_failed,
                   successful_count, lock>>

\* download_market_data.py 52-57, data_manager.py 27-47: a later process, days
\* days after the last one, constructs its manager on the same data directory;
\* _load_metadata (62-80) reads metadata.json, or returns the default when the
\* file cannot be read.
NewProcess(days, readable) ==
    /\ engine = "manager"
    /\ pc = "done"
    /\ today' = today + days
    /\ metadata' = IF readable THEN files.meta ELSE DefaultMetadata
    /\ pc' = "start"
    /\ stocks' = <<>>
    /\ batch_size' = 1
    /\ max_workers' = 1
    /\ end_date' = None_
    /\ i' = 0
    /\ task' = <<>>
    /\ cur' = 0
    /\ batch_data' = EmptyMap
    /\ failed_stocks' = <<>>
    /\ all_data' = EmptyMap
    /\ all_failed' = <<>>
    /\ successful_count' = 0
    /\ lock' = "free"
    /\ result' = EmptyMap
    /\ UNCHANGED <<engine, files>>

\* data_manager.py 537-556: get_market_data(date)
GetMarketData(date) ==
    /\ engine = "manager"
    /\ pc = "start"
    /\ LET key == IF date = None_ THEN today ELSE date
       IN  result' = <<"get_market_data", date, Unpickle(key)>>
    /\ pc' = "returned"
    /\ UNCHANGED <<engine, today, metadata, files, stocks, batch_size, max_workers,
                   end_date, i, task, cur, batch_data, failed_stocks, all_data,
                   all_failed, successful_count, lock>>

\* mutant: the artifacts of the cutoff day are removed too
OldOrCutoff(key, cutoff) == key <= cutoff

\* data_manager.py 599, 612: date_str < cutoff_str, on 8-digit date keys
Old(key, cutoff) == key < cutoff

\* the files of a mapping from date keys that clean_old_data leaves
Kept(m, cutoff) ==
    LET keys == {d \in DOMAIN m : ~Old(d, cutoff)}
    IN  IF keys = {} THEN EmptyMap ELSE [d \in keys |-> m[d]]

\* data_manager.py 582-627: clean_old_data(keep_days); the result is the
\* number of files removed, which the method prints
CleanOldData(keep_days) ==
    /\ engine = "manager"
    /\ pc = "start"
    /\ LET cutoff == today - keep_days
           removed == Cardinality({d \in DOMAIN files.snap : Old(d, cutoff)})
                        + Cardinality({d \in DOMAIN files.list : Old(d, cutoff)})
                        + Cardinality({f \in files.stock : Old(f[2], cutoff)})
       IN  /\ files' = [files EXCEPT
                          !.snap = Kept(@, cutoff),
                          !.corrupt = {d \in @ : ~Old(d, cutoff)},
                          !.list = Kept(@, cutoff),
                          !.stock = {f \in @ : ~Old(f[2], cutoff)}]
           /\ result' = <<"clean_old_data", keep_days, removed>>
    /\ pc' = "returned"
    /\ UNCHANGED <<engine, today, metadata, stocks, batch_size, max_workers,
                   end_date, i, task, cur, batch_data, failed_stocks, all_data,
                   all_failed, successful_count, lock>>

\* data_manager.py 112-142: a call of _should_update_data on the constructed
\* manager
ShouldUpdateDataCall ==
    /\ engine = "manager"
    /\ pc = "start"
    /\ result' = <<"_should_update_data", ShouldUpdateData(metadata, today),
                   UpdateReason(metadata, today)>>
    /\ pc' = "returned"
    /\ UNCHANGED <<engine, today, metadata, files, stocks, batch_size, max_workers,
                   end_date, i, task, cur, batch_data, failed_stocks, all_data,
                   all_failed, successful_count, lock>>

(* --------------------------------------------------------- specification *)
\* no run has been started on the constructed object
Idle ==
    /\ pc = "start"
    /\ stocks = <<>>
    /\ batch_size = 1
    /\ max_workers = 1
    /\ end_date = None_
    /\ i = 0
    /\ task = <<>>
    /\ cur = 0
    /\ batch_data = EmptyMap
    /\ failed_stocks = <<>>
    /\ all_data = EmptyMap
    /\ all_failed = <<>>
    /\ successful_count = 0
    /\ lock = "free"
    /\ result = EmptyMap

Init ==
    /\ engine \in {"manager", "selector"}
    /\ today = Today
    /\ metadata = DefaultMetadata
    /\ files = NoFiles
    /\ Idle

Caps == {None_, -1} \cup 1..MaxStocks

\* One run of either engine on a listing of at most maxN instruments, with
\* the batch size drawn from B, the worker count from W, the as-of date from
\* E, the answers of the source from R and the local files of the selector
\* from L and the outcome of a write of metadata.json from S.
NextWith(maxN, B, W, E, R, L, S) ==
    \/ /\ pc = "start"
       /\ \E force_update \in BOOLEAN, max_stocks \in Caps, bs \in B, mw \in W,
             ed \in E, stocks_sh \in Segments(maxN), stocks_sz \in Segments(maxN),
             saved \in S :
             /\ stocks_sh.n + stocks_sz.n <= maxN
             /\ DownloadAllMarketData(force_update, max_stocks, bs, mw, ed,
                                      GetStockList(stocks_sh, stocks_sz), saved)
    \/ \E n \in 1..maxN, bs \in B, mw \in W, ed \in E :
          LoadStocksDataParallel(n, bs, mw, ed)
    \/ SubmitBatch
    \/ \E c \in 1..maxN, ok \in BOOLEAN, local \in L : TaskStart(c, ok, local)
    \/ \E c \in 1..maxN, resp \in R : ProviderRequest(c, resp)
    \/ \E c \in 1..maxN : AsCompleted(c)
    \/ AcquireLock
    \/ RecordResult
    \/ ExecutorExit
    \/ MergeBatch
    \/ LoaderReturn
    \/ \E ok \in BOOLEAN : SaveSnapshot(ok)
    \/ \E saved \in S : UpdateMetadata(saved)

\* Whole runs: up to MaxStocks instruments, every batch size and worker count,
\* no as-of date or yesterday's; the write of metadata.json succeeds.
Next ==
    NextWith(MaxStocks, 1..MaxBatch, 1..MaxWorkers, {None_, Today - 1},
             HistoryResponses, HistoryResponses, {TRUE})

Spec == Init /\ [][Next]_vars

\* Runs on a single instrument, against any source and any local file.
TaskNext == NextWith(1, {1}, {1}, AsOfDates, AnyResponses, AnyResponses, {TRUE})

TaskSpec == Init /\ [][TaskNext]_vars

\* Runs in which the write of metadata.json (data_manager.py 82-89), like the
\* write of the snapshot, succeeds or fails: listings of up to MaxBatch
\* instruments taken one at a time.
WriteNext ==
    NextWith(MaxBatch, 1..MaxBatch, {1}, {None_, Today - 1},
             HistoryResponses, HistoryResponses, BOOLEAN)

WriteSpec == Init /\ [][WriteNext]_vars

\* The same runs when no thread stops for ever: the driver goes on, the pool
\* starts a queued task when a worker is free, and every request to the
\* provider returns or raises.
LiveSpec == Init /\ [][WriteNext]_vars /\ WF_vars(WriteNext)

\* the answer of a source that has the history of the instrument
GoodResponse ==
    [kind |-> "frame",
     frame |-> [bars |-> History(RunBars, Today), hasDate |-> FALSE, hasClose |-> TRUE]]

LastDay == Today + MaxRuns - 1

\* A sequence of runs of the manager, one process a day from Today to LastDay,
\* on a listing of two instruments that the source always answers, with every
\* write succeeding.
JournalNext ==
    \/ \E bs \in 1..MaxBatch, mw \in 1..MaxWorkers :
          DownloadAllMarketData(FALSE, None_, bs, mw, None_, 2, TRUE)
    \/ SubmitBatch
    \/ \E c \in 1..2 : TaskStart(c, TRUE, NoFile)
    \/ \E c \in 1..2 : ProviderRequest(c, GoodResponse)
    \/ \E c \in 1..2 : AsCompleted(c)
    \/ AcquireLock
    \/ RecordResult
    \/ ExecutorExit
    \/ MergeBatch
    \/ SaveSnapshot(TRUE)
    \/ UpdateMetadata(TRUE)
    \/ today < LastDay /\ NewProcess(1, TRUE)

JournalInit == Init /\ engine = "manager"

\* the seven days from Today on, one of each day of the week
Week == Today..(Today + 6)

\* The freshness decision on any day of the week, for a manager whose
\* metadata.json records no update or one of any day from before the week to
\* after it (a run with an as-of date records that date).
FreshInit ==
    /\ engine = "manager"
    /\ today \in Week
    /\ \E u \in {None_} \cup 1..(Today + 7) :
          /\ files = [NoFiles EXCEPT !.meta.last_update = u]
          /\ metadata = files.meta
    /\ Idle

FreshNext == ShouldUpdateDataCall

\* the date keys of the files of a data directory
CacheDates == (Today - 1)..(Today + 1)

\* the snapshot a run with the as-of date d leaves of one instrument
SnapshotOf(d) == (1 :> Stored(Success(GoodResponse.frame, d)))

\* A manager constructed today or tomorrow on a data directory earlier runs
\* have left: any set of snapshot files, readable or not, of list files and
\* of per-instrument files, keyed by the dates of CacheDates.
StoreInit ==
    /\ engine = "manager"
    /\ today \in {Today, Today + 1}
    /\ metadata = DefaultMetadata
    /\ \E snaps \in SUBSET CacheDates, lists \in SUBSET CacheDates,
          stock \in SUBSET ({1} \X CacheDates) :
          \E corrupt \in SUBSET snaps :
              files = [list |-> Kept([d \in lists |-> 1], 0),
                       snap |-> Kept([d \in snaps |-> SnapshotOf(d)], 0),
                       corrupt |-> corrupt,
                       stock |-> stock,
                       meta |-> DefaultMetadata]
    /\ Idle

StoreNext ==
    \/ \E date \in {None_} \cup CacheDates \cup {Today + 2} : GetMarketData(date)
    \/ \E keep_days \in 0..MaxKeep : CleanOldData(keep_days)

StoreSpec == StoreInit /\ [][StoreNext]_vars

(* ------------------------------------------------------------ interrupt *)
\* The positions of the driver thread inside the batch loop of
\* download_all_market_data (data_manager.py 257-290).
InLoop == {"as_completed", "result", "locked", "merge"}

\* KeyboardInterrupt is raised in the driver thread while it is in the batch
\* loop.  It is not an Exception, so "except Exception" (data_manager.py 429)
\* does not catch it; "with self._lock" (421, 425) releases the lock and the
\* exception reaches the exit of "with ThreadPoolExecutor" (401).
Interrupt ==
    /\ engine = "manager"
    /\ pc \in InLoop
    /\ pc' = "interrupted"
    /\ lock' = "free"
    /\ UNCHANGED <<engine, today, metadata, files, stocks, batch_size, max_workers,
                   end_date, i, task, cur, batch_data, failed_stocks, all_data,
                   all_failed, successful_count, result>>

\* The exit of "with ThreadPoolExecutor" is shutdown(wait=True): the driver
\* waits until no task of the pool is queued or running.
PoolIdle == \A c \in Codes : task[c].st \notin {"queued", "running"}

\* The exception then leaves _process_batch_threaded and
\* download_all_market_data, whose accumulators are locals, and main
\* (download_market_data.py 130-132) prints a message and returns 1.
KeyboardInterruptCaught ==
    /\ pc = "interrupted"
    /\ PoolIdle
    /\ result' = <<"main", 1>>
    /\ pc' = "returned"
    /\ stocks' = <<>>
    /\ batch_size' = 1
    /\ max_workers' = 1
    /\ end_date' = None_
    /\ i' = 0
    /\ task' = <<>>
    /\ cur' = 0
    /\ batch_data' = EmptyMap
    /\ failed_stocks' = <<>>
    /\ all_data' = EmptyMap
    /\ all_failed' = <<>>
    /\ successful_count' = 0
    /\ UNCHANGED <<engine, today, metadata, files, lock>>

\* Whole runs, interrupted or not.
InterruptNext ==
    \/ Next
    \/ Interrupt
    \/ KeyboardInterruptCaught

InterruptSpec == Init /\ [][InterruptNext]_vars

FreshSpec == FreshInit /\ [][FreshNext]_vars

JournalSpec == JournalInit /\ [][JournalNext]_vars

(* ------------------------------------------------------------- strategy *)
\* The latest row of a frame with indicators, as b1_strategy reads it
\* (stock_selector.py 441-446).  ZF is in tenths of a percent, so that 1.8 is
\* the integer ZFMax; every value can be NaN.
FeatureRows ==
    [J : {NaN, JMax, JMax + 1},
     ZF : {NaN, ZFMin - 1, ZFMin, ZFMax, ZFMax + 1},
     ZFrange : {NaN, RangeMax, RangeMax + 1},
     short_trend : {NaN, 1, 2},
     multi_trend : {NaN, 1, 2},
     close : {NaN, 1, 2}]

\* a row that meets the five conditions, the two bounds of ZF apart
PassingRow ==
    [J |-> JMax, ZF |-> ZFMax, ZFrange |-> RangeMax, short_trend |-> 2,
     multi_trend |-> 1, close |-> 2]

\* A frame of the mapping: empty or not, with the indicator columns or not,
\* and its latest row.
FeatureFrame(empty_, fields, latest) ==
    [empty |-> empty_, fields |-> fields, latest |-> latest]

AnyFeatureFrames ==
    {FeatureFrame(FALSE, TRUE, r) : r \in FeatureRows}
        \cup {FeatureFrame(TRUE, FALSE, PassingRow), FeatureFrame(FALSE, FALSE, PassingRow)}

SomeFeatureFrames ==
    {FeatureFrame(FALSE, TRUE, PassingRow),
     FeatureFrame(FALSE, TRUE, [PassingRow EXCEPT !.J = NaN]),
     FeatureFrame(TRUE, FALSE, PassingRow)}

\* pd.isna
isna(x) == x = NaN

\* <= on floats: false when an operand is NaN
Le(a, b) == a # NaN /\ b # NaN /\ a <= b

\* mutant: equality passes
GtOrEqual(a, b) == a # NaN /\ b # NaN /\ a >= b

\* > on floats: false when an operand is NaN
Gt(a, b) == a # NaN /\ b # NaN /\ a > b

\* stock_selector.py 453-466: cond1 .. cond5
B1Conditions(latest) ==
    /\ Le(latest.J, JMax)
    /\ Le(ZFMin, latest.ZF) /\ Le(latest.ZF, ZFMax)
    /\ Le(latest.ZFrange, RangeMax)
    /\ Gt(latest.short_trend, latest.multi_trend)
    /\ Gt(latest.close, latest.multi_trend)

\* stock_selector.py 430-451: the rows the loop skips (continue)
B1Skips(data) ==
    \/ data.empty
    \/ ~data.fields
    \/ isna(data.latest.J) \/ isna(data.latest.ZF) \/ isna(data.latest.ZFrange)
    \/ isna(data.latest.short_trend) \/ isna(data.latest.multi_trend)

\* mutant: the loop ends at the first row it would skip
LoopCodesUntilSkip(stocks_data) ==
    {k \in 1..Len(stocks_data) : \A j \in 1..k : ~B1Skips(stocks_data[j])}

\* stock_selector.py 429: for code, data in stocks_data.items()
LoopCodes(stocks_data) == 1..Len(stocks_data)

\* stock_selector.py 476-485: the dict appended for a selected instrument
SelectedStock(code, latest) ==
    [code |-> code, price |-> latest.close, change_pct |-> latest.ZF,
     j_value |-> latest.J, range_pct |-> latest.ZFrange,
     short_trend |-> latest.short_trend, multi_trend |-> latest.multi_trend]

\* stock_selector.py 415-500: the rows of the DataFrame b1_strategy returns,
\* in the order of the mapping (none: the empty DataFrame)
B1Selected(stocks_data) ==
    LET Test(k) == /\ k \in LoopCodes(stocks_data)
                   /\ ~B1Skips(stocks_data[k])
                   /\ B1Conditions(stocks_data[k].latest)
        codes == SelectSeq([k \in 1..Len(stocks_data) |-> k], Test)
    IN  [j \in 1..Len(codes) |-> SelectedStock(codes[j], stocks_data[codes[j]].latest)]

\* stock_selector.py 400-500: b1_strategy on the mapping the loader returned
B1Strategy ==
    /\ engine = "selector"
    /\ pc = "done"
    /\ result' = <<"b1_strategy", B1Selected(result)>>
    /\ pc' = "returned"
    /\ UNCHANGED <<engine, today, metadata, files, stocks, batch_size, max_workers,
                   end_date, i, task, cur, batch_data, failed_stocks, all_data,
                   all_failed, successful_count, lock>>

\* The loader has returned a mapping of 1 to MaxLoaded instruments: one frame
\* of it is any frame, the others are a passing frame, a frame with an
\* undefined J or an empty frame.
SelectInit ==
    /\ engine = "selector"
    /\ today = Today
    /\ metadata = DefaultMetadata
    /\ files = NoFiles
    /\ \E n \in 1..MaxLoaded, at \in 1..MaxLoaded, any \in AnyFeatureFrames :
          \E others \in [1..n -> SomeFeatureFrames] :
              /\ at <= n
              /\ all_data = [k \in 1..n |-> IF k = at THEN any ELSE others[k]]
    /\ result = all_data
    /\ pc = "done"
    /\ stocks = [k \in 1..Len(all_data) |-> k]
    /\ batch_size = 1
    /\ max_workers = 1
    /\ end_date = None_
    /\ i = Len(stocks)
    /\ task = <<>>
    /\ cur = 0
    /\ batch_data = EmptyMap
    /\ failed_stocks = <<>>
    /\ all_failed = <<>>
    /\ successful_count = Len(stocks)
    /\ lock = "free"

SelectNext == B1Strategy

SelectSpec == SelectInit /\ [][SelectNext]_vars

(* ------------------------------------------------------------- blk file *)
\* Identifiers are strings of six digits, written as sequences of digits: two
\* that start with "6", one of each of "000", "002" and "300", and three of
\* no recognised class.
Identifiers ==
    {<<6, 0, 0, 0, 0, 0>>, <<6, 8, 8, 0, 0, 1>>, <<0, 0, 0, 0, 0, 1>>,
     <<0, 0, 2, 0, 0, 1>>, <<3, 0, 0, 0, 0, 1>>, <<0, 0, 1, 0, 0, 1>>,
     <<3, 0, 1, 0, 0, 1>>, <<9, 0, 0, 0, 0, 1>>}

\* str.startswith
startswith(code, prefix) ==
    Len(code) >= Len(prefix) /\ SubSeq(code, 1, Len(prefix)) = prefix

\* mutant: two digits decide the Shenzhen classes
ShenzhenPrefixesShort == {<<0, 0>>, <<3, 0>>}

\* stock_selector.py 537: ('000', '002', '300')
ShenzhenPrefixes == {<<0, 0, 0>>, <<0, 0, 2>>, <<3, 0, 0>>}

\* stock_selector.py 535-543: the line of an identifier, <<>> when it is skipped
MarketCode(code) ==
    IF startswith(code, <<6>>) THEN <<1>> \o code
    ELSE IF \E prefix \in ShenzhenPrefixes : startswith(code, prefix) THEN <<0>> \o code
    ELSE <<>>

\* stock_selector.py 530-543: blk_codes
RECURSIVE BlkCodes(_)
BlkCodes(selected_stocks) ==
    IF selected_stocks = <<>> THEN <<>>
    ELSE LET market_code == MarketCode(Head(selected_stocks).code)
         IN  (IF market_code = <<>> THEN <<>> ELSE <<market_code>>)
                 \o BlkCodes(Tail(selected_stocks))

\* no file was written: the value None of the path
NoBlk == <<"none", <<>>>>

\* stock_selector.py 502-555: the file save_to_blk_file writes, one line per
\* element; nothing for an empty DataFrame or when the write fails
SaveToBlkFile(selected_stocks, written) ==
    IF selected_stocks = <<>> \/ ~written THEN NoBlk
    ELSE <<"blk", BlkCodes(selected_stocks)>>

\* stock_selector.py 634-638: the end of run_stock_selection after the
\* strategy has returned; the result is the DataFrame of the strategy, here
\* with the file written next to it
RunStockSelectionReturn(save_blk, written) ==
    /\ engine = "selector"
    /\ pc = "returned"
    /\ result[1] = "b1_strategy"
    /\ LET selected == result[2]
       IN  result' = <<"run_stock_selection", selected,
                       IF save_blk /\ selected # <<>>
                       THEN SaveToBlkFile(selected, written)
                       ELSE NoBlk>>
    /\ UNCHANGED <<engine, today, metadata, files, pc, stocks, batch_size,
                   max_workers, end_date, i, task, cur, batch_data, failed_stocks,
                   all_data, all_failed, successful_count, lock>>

\* The strategy has returned the rows of up to MaxSelected instruments with
\* distinct identifiers, in any order.
BlkInit ==
    /\ engine = "selector"
    /\ today = Today
    /\ metadata = DefaultMetadata
    /\ files = NoFiles
    /\ \E codes \in SeqsUpTo(Identifiers, MaxSelected) :
          /\ \A j, k \in 1..Len(codes) : j # k => codes[j] # codes[k]
          /\ result = <<"b1_strategy",
                        [k \in 1..Len(codes) |-> SelectedStock(codes[k], PassingRow)]>>
    /\ pc = "returned"
    /\ stocks = <<>>
    /\ batch_size = 1
    /\ max_workers = 1
    /\ end_date = None_
    /\ i = 0
    /\ task = <<>>
    /\ cur = 0
    /\ batch_data = EmptyMap
    /\ failed_stocks = <<>>
    /\ all_data = EmptyMap
    /\ all_failed = <<>>
    /\ successful_count = 0
    /\ lock = "free"

BlkNext == \E save_blk \in BOOLEAN, written \in BOOLEAN :
               RunStockSelectionReturn(save_blk, written)

BlkSpec == BlkInit /\ [][BlkNext]_vars

(* ----------------------------------------------------------- indicators *)
\* The bars of the indicator calculation carry a high, a low and a close: a
\* flat bar, a flat bar whose close lies above its high, a flat bar with no
\* close, and a bar with a range.
BarShapes ==
    {[high |-> 1, low |-> 1, close |-> 1], [high |-> 1, low |-> 1, close |-> 2],
     [high |-> 1, low |-> 1, close |-> NaN], [high |-> 2, low |-> 1, close |-> 1]}

\* float subtraction
Sub(a, b) == IF a = NaN \/ b = NaN THEN NaN ELSE a - b

\* a / b * 100 on floats whose quotient is whole
Ratio100(a, b) ==
    IF a = NaN \/ b = NaN THEN NaN
    ELSE IF b = 0 THEN (IF a = 0 THEN NaN ELSE IF a > 0 THEN Inf ELSE NegInf)
    ELSE (a * 100) \div b

\* Series.fillna(0)
fillna0(x) == IF x = NaN THEN 0 ELSE x

\* stock_selector.py 368-369: rolling(window=9).min() / .max() at row k, NaN
\* until the window is full
Rolling(vals, k) == IF k < RsvWindow THEN {} ELSE {vals[j] : j \in (k - RsvWindow + 1)..k}

low_min(bars, k) ==
    LET window == Rolling([j \in 1..Len(bars) |-> bars[j].low], k)
    IN  IF window = {} \/ NaN \in window THEN NaN
        ELSE CHOOSE v \in window : \A w \in window : v <= w

high_max(bars, k) ==
    LET window == Rolling([j \in 1..Len(bars) |-> bars[j].high], k)
    IN  IF window = {} \/ NaN \in window THEN NaN
        ELSE CHOOSE v \in window : \A w \in window : v >= w

\* stock_selector.py 372-373: the RSV column
RSV(bars) ==
    [k \in 1..Len(bars) |->
        fillna0(Ratio100(Sub(bars[k].close, low_min(bars, k)),
                         Sub(high_max(bars, k), low_min(bars, k))))]

\* stock_selector.py 348-398: the frame calculate_technical_indicators returns
\* for a frame that is not empty: a copy with the indicator columns, of which
\* the model has RSV (K, D, J, ZF, the range and the trend lines are further
\* columns computed from the same copy)
WithIndicators(data) == [RSV |-> RSV(data.bars)] @@ data

\* mutant: the columns are added to the frame passed in
DataAfterInPlace(data, df) == df

\* stock_selector.py 358: df = data.copy(); the frame passed in as the call
\* leaves it
DataAfter(data, df) == data

\* stock_selector.py 195: a call of calculate_technical_indicators on the
\* series of the task; the result carries the number of calls made
CalculateTechnicalIndicators ==
    /\ engine = "selector"
    /\ pc \in {"as_completed", "returned"}
    /\ pc = "returned" => result[3] < MaxCalls
    /\ LET data == task[1].fetched
           df == IF empty(data) THEN data ELSE WithIndicators(data)
       IN  /\ task' = [task EXCEPT ![1].fetched = DataAfter(data, df)]
           /\ result' = <<"calculate_technical_indicators", df,
                          IF pc = "returned" THEN result[3] + 1 ELSE 1>>
    /\ pc' = "returned"
    /\ UNCHANGED <<engine, today, metadata, files, stocks, batch_size, max_workers,
                   end_date, i, cur, batch_data, failed_stocks, all_data,
                   all_failed, successful_count, lock>>

\* The only task of a batch is running and holds a series of RsvWindow - 1 to
\* MaxSeries bars: the first RsvWindow - 2 bars have one shape, the later ones
\* any shape.
IndicatorInit ==
    /\ engine = "selector"
    /\ today = Today
    /\ metadata = DefaultMetadata
    /\ files = NoFiles
    /\ pc = "as_completed"
    /\ stocks = <<1>>
    /\ batch_size = 1
    /\ max_workers = 1
    /\ end_date = None_
    /\ i = 0
    /\ \E n \in (RsvWindow - 1)..MaxSeries, first \in BarShapes :
          \E bars \in [1..n -> BarShapes] :
              /\ \A k \in 1..(RsvWindow - 2) : bars[k] = first
              /\ task = <<[IdleTask EXCEPT
                             !.st = "running", !.batch = 1,
                             !.fetched = [bars |-> bars, hasDate |-> FALSE,
                                          hasClose |-> TRUE]]>>
    /\ cur = 0
    /\ batch_data = EmptyMap
    /\ failed_stocks = <<>>
    /\ all_data = EmptyMap
    /\ all_failed = <<>>
    /\ successful_count = 0
    /\ lock = "free"
    /\ result = EmptyMap

IndicatorNext == CalculateTechnicalIndicators

IndicatorSpec == IndicatorInit /\ [][IndicatorNext]_vars

(* ------------------------------------------------------- listing filter *)
\* The codes of a raw listing, as sequences of digits: "600000", "000001",
\* "300001", "001001" (six digits, no recognised prefix) and "60000" (five
\* digits).
RawCodes ==
    {<<6, 0, 0, 0, 0, 0>>, <<0, 0, 0, 0, 0, 1>>, <<3, 0, 0, 0, 0, 1>>,
     <<0, 0, 1, 0, 0, 1>>, <<6, 0, 0, 0, 0>>}

\* data_client.py 66-74: the tokens of exclude_patterns, by the first of each
\* group
ExclusionTokens == {"INDEX", "ETF", "BOND", "ST", "DELISTED", "SUSPENDED", "PREFERRED"}

\* A display name is the set of tokens it contains, "BANK" being a word that
\* is no exclusion token.
RawNames == {{"BANK"}, {"BANK", "ST"}, {"ETF"}}

RawEntries == [code : RawCodes, name : RawNames]

\* data_client.py 53-57: code.str.match(stock_pattern)
MatchesStockPattern(code) ==
    /\ Len(code) = 6
    /\ \/ code[1] = 6
       \/ SubSeq(code, 1, 3) \in {<<0, 0, 0>>, <<0, 0, 2>>, <<3, 0, 0>>}

\* data_client.py 76-80: name.str.contains(exclude_pattern, case=False)
ContainsExcluded(name) == name \cap ExclusionTokens # {}

\* mutant: every row is kept
DropDuplicatesKeepAll(rows) == rows

\* data_client.py 87: drop_duplicates(subset=['code']) keeps the first row of
\* each code
DropDuplicates(rows) ==
    LET First(k) == \A j \in 1..(k - 1) : rows[j].code # rows[k].code
        keep == SelectSeq([k \in 1..Len(rows) |-> k], First)
    IN  [j \in 1..Len(keep) |-> rows[keep[j]]]

\* the order of strings of digits
RECURSIVE StrLess(_, _)
StrLess(a, b) ==
    IF b = <<>> THEN FALSE
    ELSE IF a = <<>> THEN TRUE
    ELSE IF Head(a) # Head(b) THEN Head(a) < Head(b)
    ELSE StrLess(Tail(a), Tail(b))

\* data_client.py 88: sort_values(['code'])
SortByCode(rows) == SortSeq(rows, LAMBDA r, s : StrLess(r.code, s.code))

\* data_client.py 43-107: _smart_filter_stocks
SmartFilterStocks(all_stocks) ==
    LET valid_stocks == SelectSeq(all_stocks, LAMBDA r : MatchesStockPattern(r.code))
        filtered_stocks == SelectSeq(valid_stocks, LAMBDA r : ~ContainsExcluded(r.name))
    IN  SortByCode(DropDuplicates(filtered_stocks))

\* data_client.py 25-37: the raw listing is filtered; the result carries the
\* raw listing next to the filtered one
FilterCall ==
    /\ pc = "start"
    /\ result[1] = "stocks"
    /\ result' = <<"_smart_filter_stocks", result[2], SmartFilterStocks(result[2])>>
    /\ pc' = "returned"
    /\ UNCHANGED <<engine, today, metadata, files, stocks, batch_size, max_workers,
                   end_date, i, task, cur, batch_data, failed_stocks, all_data,
                   all_failed, successful_count, lock>>

\* The provider has returned the two segments, concatenated to a raw listing
\* of up to MaxRaw rows in any order, codes repeated or not.
FilterInit ==
    /\ engine \in {"manager", "selector"}
    /\ today = Today
    /\ metadata = DefaultMetadata
    /\ files = NoFiles
    /\ pc = "start"
    /\ \E all_stocks \in SeqsUpTo(RawEntries, MaxRaw) : result = <<"stocks", all_stocks>>
    /\ stocks = <<>>
    /\ batch_size = 1
    /\ max_workers = 1
    /\ end_date = None_
    /\ i = 0
    /\ task = <<>>
    /\ cur = 0
    /\ batch_data = EmptyMap
    /\ failed_stocks = <<>>
    /\ all_data = EmptyMap
    /\ all_failed = <<>>
    /\ successful_count = 0
    /\ lock = "free"

FilterNext == FilterCall

FilterSpec == FilterInit /\ [][FilterNext]_vars

(* --------------------------------------------------------- entry points *)
\* The --end-date argument of download_market_data.py and the --date argument
\* of main.py: absent, or a text in the format the entry points ask for, in
\* the compact format of the engines, or in no date format, naming the day
\* before today.
DateArgs == [format : {"absent", "%Y-%m-%d", "%Y%m%d", "text"}, day : {Today - 1}]

\* datetime.strptime(text, fmt) raises ValueError unless the text is in the
\* format
Strptime(text, fmt) == IF text.format = fmt THEN text.day ELSE NaT

\* download_market_data.py 33-57 / main.py 37-49: the entry point of the
\* manager (download_market_data.py) or of the selector (main.py, its download
\* step switched off) parses its date argument. A date that does not parse
\* ends the program, with exit code 1 in download_market_data.py (line 42) and
\* with a bare return in main.py (line 46); else the run starts with the date
\* parsed, or with today when no date is given.
Main(date) ==
    /\ pc = "main"
    /\ LET target_date == IF date.format = "absent" THEN today
                          ELSE Strptime(date, "%Y-%m-%d")
       IN  IF target_date = NaT
           THEN /\ pc' = "returned"
                /\ result' = <<"main", IF engine = "manager" THEN 1 ELSE None_>>
                /\ UNCHANGED end_date
           ELSE /\ pc' = "start"
                /\ end_date' = target_date
                /\ UNCHANGED result
    /\ UNCHANGED <<engine, today, metadata, files, stocks, batch_size, max_workers,
                   i, task, cur, batch_data, failed_stocks, all_data, all_failed,
                   successful_count, lock>>

\* download_market_data.py 93-128 / main.py 106-138: the run is over and the
\* entry point returns, 0 in download_market_data.py and nothing in main.py
MainReturn ==
    /\ pc = "done"
    /\ pc' = "returned"
    /\ result' = <<"main", IF engine = "manager" THEN 0 ELSE None_>>
    /\ UNCHANGED <<engine, today, metadata, files, stocks, batch_size, max_workers,
                   end_date, i, task, cur, batch_data, failed_stocks, all_data,
                   all_failed, successful_count, lock>>

\* the data directory after a run for today that acquired the one instrument
\* of the listing
CurrentCache ==
    LET meta == [DefaultMetadata EXCEPT
                    !.last_update = Today,
                    !.stock_count = 1,
                    !.successful_stocks = 1,
                    !.failed_stocks = <<"int", 0>>,
                    !.update_history =
                        <<[date |-> Today, total_stocks |-> 1, successful |-> 1,
                           failed |-> 0, is_historical |-> FALSE,
                           target_date |-> Today]>>]
    IN  [NoFiles EXCEPT !.list = (Today :> 1),
                        !.snap = (Today :> SnapshotOf(Today)),
                        !.meta = meta]

\* The entry point is started on a new data directory or on one that holds
\* the cache of today.
MainInit ==
    /\ engine \in {"manager", "selector"}
    /\ today = Today
    /\ files \in {NoFiles, CurrentCache}
    /\ metadata = files.meta
    /\ pc = "main"
    /\ stocks = <<>>
    /\ batch_size = 1
    /\ max_workers = 1
    /\ end_date = None_
    /\ i = 0
    /\ task = <<>>
    /\ cur = 0
    /\ batch_data = EmptyMap
    /\ failed_stocks = <<>>
    /\ all_data = EmptyMap
    /\ all_failed = <<>>
    /\ successful_count = 0
    /\ lock = "free"
    /\ result = EmptyMap

\* Runs of an entry point on a single instrument, the as-of date of the run
\* being the date the entry point parsed.
MainNext ==
    \/ \E date \in DateArgs : Main(date)
    \/ NextWith(1, {1}, {1}, {end_date}, AnyResponses, AnyResponses, {TRUE})
    \/ MainReturn

MainSpec == MainInit /\ [][MainNext]_vars

(* ------------------------------------------------- local file or source *)
\* stock_selector.py 229-282: _get_stock_data_for_date_thread_safe is called
\* by the only task of a batch, for a local file that is absent or holds any
\* frame and for any as-of date; the file is kept next to the task.
LocalFileInit ==
    /\ engine = "selector"
    /\ today = Today
    /\ metadata = DefaultMetadata
    /\ files = NoFiles
    /\ pc = "as_completed"
    /\ stocks = <<1>>
    /\ batch_size = 1
    /\ max_workers = 1
    /\ end_date \in AsOfDates
    /\ i = 0
    /\ task = <<[IdleTask EXCEPT !.st = "queued", !.batch = 1]>>
    /\ cur = 0
    /\ batch_data = EmptyMap
    /\ failed_stocks = <<>>
    /\ all_data = EmptyMap
    /\ all_failed = <<>>
    /\ successful_count = 0
    /\ lock = "free"
    /\ \E local \in {r \in AnyResponses : r.kind # "raise"} :
          result = <<"local_file", local>>

LocalFileNext ==
    \/ \E ok \in BOOLEAN : result[1] = "local_file" /\ TaskStart(1, ok, result[2])
    \/ \E resp \in HistoryResponses : ProviderRequest(1, resp)

LocalFileSpec == LocalFileInit /\ [][LocalFileNext]_vars

(* ------------------------------------------------------ successive runs *)
\* the Friday of the week that starts at Today
Friday == CHOOSE d \in Week : weekday(d) = 4

\* the days on which a process is started: Today and the day after, the
\* Friday and the Saturday after it
RerunDays == {Today, Today + 1, Friday, Friday + 1}

\* the source answers None
NoneResponse == [kind |-> "none", frame |-> EmptyFrame]

\* Successive processes of the manager on one data directory: each makes one
\* call of download_all_market_data, forced or not, capped or not, with no
\* as-of date or yesterday's, on a listing of one instrument, or none when
\* the listing fails; the source answers with the history or with None, the snapshot is written or not, metadata.json is written.
\* The next process starts the same day or the day after, until the
\* directory has recorded MaxReruns runs.
RerunNext ==
    \/ /\ pc = "start"
       /\ \E force_update \in BOOLEAN, max_stocks \in Caps,
             ed \in {None_, Today - 1}, listed \in 0..1 :
             DownloadAllMarketData(force_update, max_stocks, 1, 1, ed, listed, TRUE)
    \/ SubmitBatch
    \/ TaskStart(1, TRUE, NoFile)
    \/ \E resp \in {GoodResponse, NoneResponse} : ProviderRequest(1, resp)
    \/ AsCompleted(1)
    \/ AcquireLock
    \/ RecordResult
    \/ ExecutorExit
    \/ MergeBatch
    \/ \E ok \in BOOLEAN : SaveSnapshot(ok)
    \/ UpdateMetadata(TRUE)
    \/ \E days \in 0..1 :
          /\ today + days \in RerunDays
          /\ Len(files.meta.update_history) < MaxReruns
          /\ NewProcess(days, TRUE)

RerunInit ==
    /\ engine = "manager"
    /\ today \in {Today, Friday}
    /\ metadata = DefaultMetadata
    /\ files = NoFiles
    /\ Idle

RerunSpec == RerunInit /\ [][RerunNext]_vars

(* ------------------------------------------------------------- pipeline *)
\* main.py 87-112, stock_selector.py 557-625: the download step of main is
\* over (it returned or raised, 78-88); main constructs the selector on the
\* same data directory and runs the selection for the same date.
SelectionStage ==
    /\ engine = "manager"
    /\ pc = "done"
    /\ engine' = "selector"
    /\ pc' = "start"
    /\ stocks' = <<>>
    /\ batch_size' = 1
    /\ max_workers' = 1
    /\ i' = 0
    /\ task' = <<>>
    /\ cur' = 0
    /\ batch_data' = EmptyMap
    /\ failed_stocks' = <<>>
    /\ all_data' = EmptyMap
    /\ all_failed' = <<>>
    /\ successful_count' = 0
    /\ lock' = "free"
    /\ result' = EmptyMap
    /\ UNCHANGED <<today, metadata, files, end_date>>

\* main.py 74-85: main has parsed its date, today's or yesterday's, and
\* starts the download step on a new data directory.
PipelineInit ==
    /\ engine = "manager"
    /\ today = Today
    /\ metadata = DefaultMetadata
    /\ files = NoFiles
    /\ pc = "start"
    /\ stocks = <<>>
    /\ batch_size = 1
    /\ max_workers = 1
    /\ end_date \in {Today - 1, Today}
    /\ i = 0
    /\ task = <<>>
    /\ cur = 0
    /\ batch_data = EmptyMap
    /\ failed_stocks = <<>>
    /\ all_data = EmptyMap
    /\ all_failed = <<>>
    /\ successful_count = 0
    /\ lock = "free"
    /\ result = EmptyMap

\* The pipeline of main on a listing of one instrument: the download step
\* for the date (not forced, capped or not), then the selection for the same
\* date.  The data directory holds what the download step wrote, so there is
\* no stocks/<code>.csv; the source answers with the history or with None.
PipelineNext ==
    \/ /\ pc = "start"
       /\ \E max_stocks \in Caps, listed \in 0..1 :
             DownloadAllMarketData(FALSE, max_stocks, 1, 1, end_date, listed, TRUE)
    \/ SelectionStage
    \/ LoadStocksDataParallel(1, 1, 1, end_date)
    \/ SubmitBatch
    \/ TaskStart(1, TRUE, NoFile)
    \/ \E resp \in {GoodResponse, NoneResponse} : ProviderRequest(1, resp)
    \/ AsCompleted(1)
    \/ AcquireLock
    \/ RecordResult
    \/ ExecutorExit
    \/ MergeBatch
    \/ LoaderReturn
    \/ \E ok \in BOOLEAN : SaveSnapshot(ok)
    \/ UpdateMetadata(TRUE)

PipelineSpec == PipelineInit /\ [][PipelineNext]_vars

(* ================================================================ claims *)
SucceededIn(S) == {c \in S : task[c].res.success}
FailedIn(S) == {c \in S : ~task[c].res.success}
Elems(q) == {q[k] : k \in 1..Len(q)}

\* C1: when the threaded batch function returns, its mapping is keyed by
\* exactly the instruments of the batch whose task succeeded and its failure
\* list holds exactly the instruments whose task failed, each once, whatever
\* the worker count and the order in which the tasks completed.
C1_BatchAccumulators ==
    pc \in {"merge", "merge_locked"} =>
        /\ DOMAIN batch_data = SucceededIn(BatchCodes)
        /\ Elems(failed_stocks) = FailedIn(BatchCodes)
        /\ Len(failed_stocks) = Cardinality(FailedIn(BatchCodes))

\* a batch of two with one worker has returned one success and one failure
C1_Witness ==
    /\ engine = "manager"
    /\ pc = "merge"
    /\ max_workers = 1
    /\ Cardinality(BatchCodes) = 2
    /\ Cardinality(DOMAIN batch_data) = 1
    /\ Len(failed_stocks) = 1

\* Some step of a run that is past its start, with the inputs of the steps
\* fixed: whether a step can be taken does not depend on what the client's
\* construction, the source or the write will do.
SomeStep ==
    \/ SubmitBatch
    \/ \E c \in Codes : TaskStart(c, TRUE, NoFile)
    \/ \E c \in Codes : ProviderRequest(c, [kind |-> "raise", frame |-> EmptyFrame])
    \/ \E c \in Codes : AsCompleted(c)
    \/ AcquireLock
    \/ RecordResult
    \/ ExecutorExit
    \/ MergeBatch
    \/ SaveSnapshot(TRUE)
    \/ UpdateMetadata(TRUE)

\* C2: in a run of the manager that got past the listing, failed tasks never
\* end the batch loop early and never stop the run: the save and metadata
\* steps are reached only with every instrument handled, the run can always
\* take a further step until it has returned, and it returns the accumulator,
\* keyed by the instruments that succeeded (possibly none).
C2_FailuresNeverAbort ==
    engine = "manager" /\ Len(stocks) > 0 =>
        /\ pc \in {"meta", "done"} => \A c \in Codes : task[c].st = "collected"
        /\ pc = "done" => /\ result = all_data
                          /\ DOMAIN all_data = SucceededIn(Codes)
                          /\ Elems(all_failed) = FailedIn(Codes)
                          /\ metadata.update_history # <<>>
        /\ pc # "done" => ENABLED SomeStep

\* a run in which every instrument failed has returned an empty accumulator
C2_Witness ==
    /\ engine = "manager"
    /\ pc = "done"
    /\ Len(stocks) = MaxStocks
    /\ FailedIn(Codes) = Codes
    /\ result = EmptyMap
    /\ Len(all_failed) = MaxStocks

Ceil(n, b) == CHOOSE k \in 0..n : k * b >= n /\ (k - 1) * b < n

\* C3: the batch loop of either engine submits every instrument in the batch
\* numbered by its position, (c - 1) div B + 1, and when the loop is over every
\* instrument has been handled, the batches are numbered 1..ceil(N / B) and the
\* batch numbers do not decrease along the listing.
C3_BatchPartition ==
    Len(stocks) > 0 =>
        /\ \A c \in Codes :
              task[c].st # "idle" => task[c].batch = ((c - 1) \div batch_size) + 1
        /\ LoopDone =>
              /\ \A c \in Codes : task[c].st = "collected"
              /\ {task[c].batch : c \in Codes} = 1..Ceil(Len(stocks), batch_size)
              /\ \A c, d \in Codes : c < d => task[c].batch <= task[d].batch

\* three instruments in batches of two: the last batch is the shorter one
C3_Witness ==
    /\ pc = "done"
    /\ Len(stocks) = 3
    /\ batch_size = 2
    /\ task[2].batch = 1
    /\ task[3].batch = 2

BatchIndex(c) == (c - 1) \div batch_size

\* C7: a task of a later batch is not even submitted before every task of
\* every earlier batch has finished and had its result handled.
C7_BatchesSequential ==
    \A c, d \in Codes :
        BatchIndex(c) < BatchIndex(d) /\ task[d].st # "idle" => task[c].st = "collected"

\* a task of the second batch runs after the two tasks of the first batch
\* were handled in the reverse of their submission order
C7_Witness ==
    /\ Len(stocks) = 3
    /\ batch_size = 2
    /\ task[3].st = "running"
    /\ all_failed = <<2, 1>>

\* C8: at most max_workers tasks run at any time, all of the same batch.
C8_BoundedPool ==
    /\ Cardinality(Running) <= max_workers
    /\ \A c, d \in Running : task[c].batch = task[d].batch

\* the pool is full and a submitted task waits for a worker
C8_Witness ==
    /\ max_workers < batch_size
    /\ Cardinality(Running) = max_workers
    /\ \E c \in Codes : task[c].st = "queued"

\* a series no attempt can return as a success: empty, or its latest close
\* missing, not a number or not above 0
Unusable(data) ==
    \/ empty(data)
    \/ ~data.hasClose
    \/ latest_close(data) = NaN
    \/ latest_close(data) <= 0

\* C4: a task of the manager calls get_daily_data at most twice, first for 300
\* bars and then for 100, and it is in its second attempt only if what the
\* first attempt was left with after the filter was empty or invalid.
C4_TwoAttempts ==
    engine = "manager" =>
        \A c \in Codes :
            /\ task[c].counts \in {<<>>, <<FullCount>>, <<FullCount, ReducedCount>>}
            /\ task[c].st = "running" /\ task[c].attempt >= 1 =>
                   Unusable(FilterByDate(task[c].fetched, end_date))
            /\ task[c].st = "finished" /\ task[c].res.success /\ Len(task[c].counts) = 1 =>
                   ~Unusable(task[c].res.data)

\* a task has succeeded in its second attempt, after calls for 300 and 100 bars
C4_Witness ==
    /\ engine = "manager"
    /\ \E c \in Codes :
          /\ task[c].st = "finished"
          /\ task[c].res.success
          /\ task[c].counts = <<FullCount, ReducedCount>>

\* the bars of a series dated on or before the as-of date
NotAfter(d, date) == d # NaT /\ d <= date
AsOfFilter(data, date) ==
    LET Keep(b) == NotAfter(b.date, date)
    IN  IF date = None_ THEN data ELSE [data EXCEPT !.bars = SelectSeq(data.bars, Keep)]

\* C5: a task of the manager reports success if and only if an attempt got a
\* series that, cut at the as-of date, is non-empty with a latest close that
\* is a number above 0: a finished task succeeded exactly when that is so of
\* its last attempt, and no task goes on to a second attempt after such a
\* series.
C5_SuccessIffUsable ==
    engine = "manager" =>
        \A c \in Codes :
            /\ task[c].st = "finished" =>
                   (task[c].res.success <=> ~Unusable(AsOfFilter(task[c].fetched, end_date)))
            /\ task[c].st = "running" /\ task[c].attempt >= 1 =>
                   Unusable(AsOfFilter(task[c].fetched, end_date))

\* C5 holds of every answer that carries the date column
C5_WithDateColumn ==
    engine = "manager" =>
        \A c \in Codes :
            task[c].fetched.hasDate \/ empty(task[c].fetched) \/ end_date = None_ =>
                /\ task[c].st = "finished" =>
                       (task[c].res.success <=> ~Unusable(AsOfFilter(task[c].fetched, end_date)))
                /\ task[c].st = "running" /\ task[c].attempt >= 1 =>
                       Unusable(AsOfFilter(task[c].fetched, end_date))

\* C6: with an as-of date, no series in the accumulator of a batch or of the
\* run holds a bar dated after it.
C6_StoredBarsNotAfterAsOf ==
    end_date # None_ =>
        /\ \A c \in DOMAIN batch_data :
              \A k \in 1..Len(batch_data[c].data.bars) :
                  NotAfter(batch_data[c].data.bars[k].date, end_date)
        /\ \A c \in DOMAIN all_data :
              \A k \in 1..Len(all_data[c].data.bars) :
                  NotAfter(all_data[c].data.bars[k].date, end_date)

\* C6 holds of every stored series that carries the date column
C6_WithDateColumn ==
    end_date # None_ =>
        \A c \in DOMAIN all_data :
            all_data[c].data.hasDate =>
                \A k \in 1..Len(all_data[c].data.bars) :
                    NotAfter(all_data[c].data.bars[k].date, end_date)

\* a step that writes into the accumulators of the batch; the empty ones a
\* batch starts with are new objects, not writes
BatchMutation ==
    /\ pc \notin {"start", "submit"}
    /\ batch_data' # batch_data \/ failed_stocks' # failed_stocks

\* a step that writes into the accumulators of the run
RunMutation ==
    /\ pc # "start"
    /\ all_data' # all_data \/ all_failed' # all_failed

\* C9 as stated: every write into the accumulators, of a batch or of the run,
\* in either engine, is made with the lock held, and the lock is never held
\* while a fetch is running.
C9_AllMutationsGuarded ==
    [][/\ BatchMutation \/ RunMutation => lock = "main"
       /\ lock' = "main" => Running' = {}]_vars

\* C9 amended: the lock is held for the writes of a batch in the manager and
\* for the merge into the run in the selector, and for neither of the other
\* two; the merge into the run is made when no fetch is running; and the lock
\* is only ever the driver's, which takes it with a future's result in hand
\* or a finished batch, never a fetch task's.
C9_GuardScope ==
    [][/\ BatchMutation => (lock = "main" <=> engine = "manager")
       /\ RunMutation => (lock = "main" <=> engine = "selector") /\ Running = {}
       /\ lock' = "main" =>
              \/ engine = "manager" /\ pc' = "locked" /\ task[cur'].st = "finished"
              \/ engine = "selector" /\ pc' = "merge_locked" /\ Running' = {}]_vars

\* the manager holds the lock for a result while another fetch of the batch
\* is running
C9_Witness ==
    /\ engine = "manager"
    /\ pc = "locked"
    /\ lock = "main"
    /\ Running # {}

\* C10 as stated: once a run that got a listing is past its last batch and
\* its save step, the snapshot file of the as-of date (today without one)
\* exists and holds the run's accumulator.
C10_SnapshotPersisted ==
    engine = "manager" /\ pc \in {"meta", "done"} /\ Len(stocks) > 0 =>
        LET key == IF end_date # None_ THEN end_date ELSE today
        IN  /\ key \in DOMAIN files.snap
            /\ files.snap[key] = all_data

\* C10 amended: the snapshot file changes in one step only, the one that follows the
\* last batch, when every task has been collected, and it becomes the run's
\* accumulator under the key of the as-of date (today without one), unless
\* the write fails and the file is left as it was; nothing is written after
\* that step. The metadata changes in the next step only:
\* last_update is that key, the counts are those of the run, and one entry
\* with the size of the universe and the counts is appended to the history.
C10_SnapshotThenMetadata ==
    [][LET key == IF end_date # None_ THEN end_date ELSE today
           entry == metadata'.update_history[Len(metadata'.update_history)]
       IN  /\ files.snap' # files.snap =>
                  /\ engine = "manager" /\ pc = "submit" /\ pc' = "meta"
                  /\ i >= Len(stocks)
                  /\ \A c \in Codes : task[c].st = "collected"
                  /\ files.snap' = (key :> all_data) @@ files.snap
           /\ pc' = "meta" => pc = "submit" /\ i >= Len(stocks)
           /\ pc \in {"meta", "done"} =>
                  pc' \in {"meta", "done"} /\ files.snap' = files.snap
           /\ pc \notin {"start", "meta"} => metadata' = metadata
           /\ pc = "meta" =>
                  /\ pc' = "done"
                  /\ metadata'.last_update = key
                  /\ metadata'.successful_stocks = Cardinality(DOMAIN all_data)
                  /\ metadata'.failed_stocks[2] = Len(all_failed)
                  /\ Len(metadata'.update_history) = Len(metadata.update_history) + 1
                  /\ entry.date = key
                  /\ entry.total_stocks = Len(stocks)
                  /\ entry.successful = Cardinality(DOMAIN all_data)
                  /\ entry.failed = Len(all_failed)
                  /\ result' = all_data]_vars

\* a run with an as-of date, successes and failures has written its snapshot
\* and its metadata
C10_Witness ==
    /\ engine = "manager"
    /\ pc = "done"
    /\ end_date # None_
    /\ all_data # EmptyMap
    /\ all_failed # <<>>
    /\ DOMAIN files.snap = {end_date}
    /\ files.snap[end_date] = all_data
    /\ metadata.last_update = end_date
    /\ Len(metadata.update_history) = 1

\* C11: in a sequence of daily runs the history holds the entries of the
\* most recent runs, at most 10 of them, oldest first: after r runs it has
\* min(r, 10) entries and they carry the dates of the last min(r, 10) days on
\* which a run was made, in order.
C11_HistoryCap ==
    LET h == metadata.update_history
        runs == (today - Today) + (IF pc = "done" THEN 1 ELSE 0)
    IN  /\ Len(h) = (IF runs < 10 THEN runs ELSE 10)
        /\ \A k \in 1..Len(h) : h[k].date = Today + runs - Len(h) + k - 1
        /\ files.meta.update_history = h

\* the eleventh run has been made: the history has 10 entries and the entry
\* of the first run is gone
C11_Witness ==
    /\ pc = "done"
    /\ today = Today + 10
    /\ Len(metadata.update_history) = 10
    /\ metadata.update_history[1].date = Today + 1
    /\ metadata.update_history[10].date = today

\* C12: when a run of the manager that got a listing has returned, the
\* failed_stocks field of the metadata is the list of the instruments that
\* failed in that run.
C12_FailedIdentifiers ==
    engine = "manager" /\ pc = "done" /\ Len(stocks) > 0 =>
        /\ metadata.failed_stocks[1] = "list"
        /\ metadata.failed_stocks[2] = all_failed

\* the operation op has returned to its caller
Returned(op) == pc = "returned" /\ result[1] = op

\* C13: with no update recorded, _should_update_data returns true on every
\* day of the week.
C13_ColdStart ==
    Returned("_should_update_data") /\ metadata.last_update = None_ =>
        result[2] = TRUE

\* it has returned true on a Sunday with no update recorded
C13_Witness ==
    /\ Returned("_should_update_data")
    /\ metadata.last_update = None_
    /\ today % 7 = 6
    /\ result[2] = TRUE

\* C14: with an update recorded, on a day from Monday to Friday
\* _should_update_data returns true exactly when the last update is before
\* today.
C14_Weekday ==
    Returned("_should_update_data") /\ metadata.last_update # None_ /\ today % 7 < 5 =>
        (result[2] <=> metadata.last_update < today)

\* it has returned false on a weekday for an update of the same day
C14_Witness ==
    /\ Returned("_should_update_data")
    /\ today % 7 < 5
    /\ metadata.last_update = today
    /\ result[2] = FALSE

\* the Friday before a Saturday or Sunday
FridayBefore(d) == d - ((d % 7) - 4)

\* C15: with an update recorded, on a Saturday or Sunday _should_update_data
\* returns false when the last update is of the Friday before or later, and
\* true otherwise.
C15_Weekend ==
    Returned("_should_update_data") /\ metadata.last_update # None_ /\ today % 7 >= 5 =>
        (result[2] <=> ~(metadata.last_update >= FridayBefore(today)))

\* it has returned false on a Sunday for an update of the Friday before
C15_Witness ==
    /\ Returned("_should_update_data")
    /\ today % 7 = 6
    /\ metadata.last_update = today - 2
    /\ result[2] = FALSE

\* C16: clean_old_data(keep_days) removes the snapshot files, the list
\* files and the per-instrument files whose date key is before today -
\* keep_days, and keeps, unchanged, those of that day and of later days.
C16_CleanOldData ==
    [][pc = "start" /\ pc' = "returned" /\ result'[1] = "clean_old_data" =>
          LET cutoff == today - result'[2]
          IN  /\ DOMAIN files.snap' = {d \in DOMAIN files.snap : d >= cutoff}
              /\ \A d \in DOMAIN files.snap' : files.snap'[d] = files.snap[d]
              /\ DOMAIN files.list' = {d \in DOMAIN files.list : d >= cutoff}
              /\ \A d \in DOMAIN files.list' : files.list'[d] = files.list[d]
              /\ files.stock' = {f \in files.stock : f[2] >= cutoff}]_vars

\* files have been removed, and files of each kind dated at the cutoff are
\* still there
C16_Witness ==
    /\ Returned("clean_old_data")
    /\ result[3] > 0
    /\ (today - result[2]) \in DOMAIN files.snap
    /\ (today - result[2]) \in DOMAIN files.list
    /\ <<1, today - result[2]>> \in files.stock

\* C17: get_market_data(date) returns the snapshot of the file of that date
\* key (today's for None) when the file is there and can be unpickled, and
\* the empty mapping otherwise; what it returns is never the snapshot of
\* another date.
C17_GetMarketData ==
    Returned("get_market_data") =>
        LET key == IF result[2] = None_ THEN today ELSE result[2]
            usable == key \in DOMAIN files.snap /\ key \notin files.corrupt
        IN  /\ usable => result[3] = files.snap[key]
            /\ ~usable => DOMAIN result[3] = {}
            /\ \A c \in DOMAIN result[3] : result[3][c].end_date = key

\* the file of the date asked for cannot be unpickled, another snapshot is
\* there, and the call has returned the empty mapping
C17_Witness ==
    /\ Returned("get_market_data")
    /\ result[2] \in files.corrupt
    /\ \E d \in DOMAIN files.snap : d \notin files.corrupt
    /\ DOMAIN result[3] = {}

\* C18: a run of the manager whose snapshot write failed (it is past the
\* write and there is no file of its date key) is not stopped: its next step
\* updates the metadata, and when it has returned the metadata records the
\* run, metadata.json holds that metadata unless its own write failed as
\* well, and the caller has the whole accumulator.
C18_WriteFailureNotFatal ==
    LET key == IF end_date # None_ THEN end_date ELSE today
    IN  engine = "manager" /\ Len(stocks) > 0 /\ key \notin DOMAIN files.snap =>
            /\ pc = "meta" => ENABLED UpdateMetadata(TRUE)
            /\ pc = "done" =>
                   /\ result = all_data
                   /\ DOMAIN all_data = SucceededIn(Codes)
                   /\ metadata.last_update = key
                   /\ metadata.successful_stocks = Cardinality(DOMAIN all_data)
                   /\ Len(metadata.update_history) = 1
                   /\ metadata.update_history[1].date = key
                   /\ files.meta = metadata \/ files.meta.update_history = <<>>

\* a run whose snapshot write failed has returned a non-empty accumulator
\* and its metadata is in metadata.json
C18_Witness ==
    /\ engine = "manager"
    /\ pc = "done"
    /\ Len(stocks) > 0
    /\ DOMAIN files.snap = {}
    /\ DOMAIN result # {}
    /\ result = all_data
    /\ files.meta = metadata
    /\ metadata.last_update # None_

\* A run of the manager starts, goes past the freshness check, asks the
\* provider for the listing and one of the two segment calls raises.
ListingFailed ==
    /\ engine = "manager"
    /\ pc = "start"
    /\ \E force_update \in BOOLEAN, max_stocks \in Caps, bs \in 1..MaxBatch,
          ed \in {None_, Today - 1}, saved \in BOOLEAN,
          stocks_sh \in Segments(MaxBatch), stocks_sz \in Segments(MaxBatch) :
          /\ ~(stocks_sh.ok /\ stocks_sz.ok)
          /\ stocks_sh.n + stocks_sz.n <= MaxBatch
          /\ force_update \/ today \notin DOMAIN files.list
          /\ ~(/\ ~ShouldUpdateData(metadata, today)
               /\ ~force_update
               /\ ed = None_
               /\ LoadExistingData # EmptyMap)
          /\ DownloadAllMarketData(force_update, max_stocks, bs, 1, ed,
                                   GetStockList(stocks_sh, stocks_sz), saved)

\* C19: when the listing fails because the provider raises for either
\* segment, the run ends in that step with an empty result: no instrument of
\* the segment that answered is used, no task exists, and the list files, the
\* snapshots and the metadata (history and last_update) are as they were.
C19_ListingFailureAborts ==
    [][ListingFailed =>
            /\ pc' = "done"
            /\ result' = EmptyMap
            /\ stocks' = <<>>
            /\ task' = <<>>
            /\ all_data' = EmptyMap
            /\ files' = files
            /\ metadata' = metadata]_vars

\* a run of the manager has ended with an empty result, no universe and
\* nothing written
C19_Witness ==
    /\ engine = "manager"
    /\ pc = "done"
    /\ result = EmptyMap
    /\ stocks = <<>>
    /\ files = NoFiles
    /\ metadata = DefaultMetadata

\* C20: when an interrupted run of the manager that has data in its
\* accumulators gives control back to its caller, it does so as a run that
\* returns, and the caller has the accumulator as it was at that moment: the
\* data of the merged batches and the results recorded so far in the batch
\* that was interrupted.
C20_InterruptKeepsPartialData ==
    [][/\ pc = "interrupted"
       /\ pc' # "interrupted"
       /\ DOMAIN all_data \cup DOMAIN batch_data # {}
       => /\ pc' = "done"
          /\ result' = batch_data @@ all_data]_vars

\* C21: one call of get_daily_data sends one bar request to the source:
\* whenever a running task sends a request, it is the first request of the
\* call it is in.
C21_OneRequestPerCall ==
    [][\A c \in Codes :
          c \in DOMAIN task' /\ task[c].st = "running" /\ task'[c] # task[c] =>
              task[c].req = 0]_vars

\* the instrument k is in the rows b1_strategy returned
Selected(k) == \E j \in 1..Len(result[2]) : result[2][j].code = k

Defined(latest) ==
    /\ latest.J # NaN /\ latest.ZF # NaN /\ latest.ZFrange # NaN
    /\ latest.short_trend # NaN /\ latest.multi_trend # NaN /\ latest.close # NaN

\* C22: of the instruments whose frame has a latest row with every indicator
\* defined, b1_strategy returns exactly those with J <= 13, -2 <= ZF <= 1.8,
\* range <= 7, short trend > multi trend and close > multi trend, with their
\* values, in the order of the mapping.
C22_B1Conditions ==
    Returned("b1_strategy") =>
        /\ \A k \in 1..Len(all_data) :
              LET r == all_data[k].latest
              IN  ~all_data[k].empty /\ all_data[k].fields /\ Defined(r) =>
                      (Selected(k) <=>
                          /\ r.J <= JMax
                          /\ ZFMin <= r.ZF /\ r.ZF <= ZFMax
                          /\ r.ZFrange <= RangeMax
                          /\ r.short_trend > r.multi_trend
                          /\ r.close > r.multi_trend)
        /\ \A j \in 1..Len(result[2]) :
              /\ result[2][j].price = all_data[result[2][j].code].latest.close
              /\ j > 1 => result[2][j - 1].code < result[2][j].code

\* an instrument on the three inclusive bounds is selected, and one whose
\* short trend equals the multi trend is not
C22_Witness ==
    /\ Returned("b1_strategy")
    /\ Len(all_data) = 2
    /\ all_data[1] = FeatureFrame(FALSE, TRUE, PassingRow)
    /\ Selected(1)
    /\ all_data[2].latest = [PassingRow EXCEPT !.short_trend = 1]
    /\ ~all_data[2].empty /\ all_data[2].fields
    /\ ~Selected(2)

\* C23: an instrument whose latest row has an undefined J, ZF, range, short
\* trend, multi trend or close is not in the rows b1_strategy returns; the
\* call returns, and the instruments after it in the mapping that meet the
\* conditions are in the rows.
C23_UndefinedRejected ==
    Returned("b1_strategy") =>
        \A k \in 1..Len(all_data) :
            ~all_data[k].empty /\ all_data[k].fields /\ ~Defined(all_data[k].latest) =>
                /\ ~Selected(k)
                /\ \A m \in (k + 1)..Len(all_data) :
                      all_data[m] = FeatureFrame(FALSE, TRUE, PassingRow) => Selected(m)

\* the first instrument has an undefined close and nothing else undefined,
\* and the second one is selected
C23_Witness ==
    /\ Returned("b1_strategy")
    /\ Len(all_data) = 2
    /\ all_data[1] = FeatureFrame(FALSE, TRUE, [PassingRow EXCEPT !.close = NaN])
    /\ ~Selected(1)
    /\ Selected(2)

\* the position in the selection of the identifier a line carries
RowOf(line) ==
    CHOOSE k \in 1..Len(result[2]) : result[2][k].code = SubSeq(line, 2, Len(line))

\* C24: the file written for a selection has one line for each selected
\* identifier that starts with "6" ("1" and the identifier) or with "000",
\* "002" or "300" ("0" and the identifier), in the order of the selection,
\* every line 7 characters long; an identifier of neither class has no line,
\* and every selected row is in the DataFrame the run returns.
C24_BlkEncoding ==
    Returned("run_stock_selection") /\ result[3][1] = "blk" =>
        LET selected == result[2]
            lines == result[3][2]
            six(k) == selected[k].code[1] = 6
            zero(k) == SubSeq(selected[k].code, 1, 3)
                           \in {<<0, 0, 0>>, <<0, 0, 2>>, <<3, 0, 0>>}
        IN  /\ \A k \in 1..Len(selected) :
                  /\ six(k) => \E j \in 1..Len(lines) : lines[j] = <<1>> \o selected[k].code
                  /\ zero(k) => \E j \in 1..Len(lines) : lines[j] = <<0>> \o selected[k].code
                  /\ ~six(k) /\ ~zero(k) =>
                         \A j \in 1..Len(lines) : SubSeq(lines[j], 2, 7) # selected[k].code
            /\ Len(lines) = Cardinality({k \in 1..Len(selected) : six(k) \/ zero(k)})
            /\ \A j \in 1..Len(lines) :
                  /\ Len(lines[j]) = 7
                  /\ \E k \in 1..Len(selected) : SubSeq(lines[j], 2, 7) = selected[k].code
                  /\ j > 1 => RowOf(lines[j - 1]) < RowOf(lines[j])
            /\ Len(selected) > 0

\* a file of two lines was written for a selection of three: an identifier
\* of no class between one of "300" and one of "6"
C24_Witness ==
    /\ Returned("run_stock_selection")
    /\ Len(result[2]) = 3
    /\ result[2][1].code = <<3, 0, 0, 0, 0, 1>>
    /\ result[2][2].code = <<3, 0, 1, 0, 0, 1>>
    /\ result[2][3].code = <<6, 8, 8, 0, 0, 1>>
    /\ result[3] = <<"blk", <<<<0, 3, 0, 0, 0, 0, 1>>, <<1, 6, 8, 8, 0, 0, 1>>>>>>

\* C25: the selector's loader accepts no series of fewer than
\* max(M1..M4) + 30 bars: a task that succeeded holds at least that many.
C25_ShortSeriesRejected ==
    engine = "selector" =>
        \A c \in Codes :
            task[c].st = "finished" /\ task[c].res.success =>
                Len(task[c].res.data.bars) >= DataCount

\* C28: in the frame calculate_technical_indicators returns, RSV is 0 on
\* every row whose 9-bar window has its highest high equal to its lowest low,
\* whatever the close of the row.
C28_FlatWindowRsvZero ==
    Returned("calculate_technical_indicators") =>
        LET bars == result[2].bars
        IN  \A k \in RsvWindow..Len(bars) :
                LET window == (k - RsvWindow + 1)..k
                IN  (\A j, m \in window : bars[j].high = bars[m].low) =>
                        result[2].RSV[k] = 0

C26_FilteredListing ==
    Returned("_smart_filter_stocks") =>
        LET raw == result[2]
            out == result[3]
            Passes(r) ==
                /\ Len(r.code) = 6
                /\ \/ r.code[1] = 6
                   \/ <<r.code[1], r.code[2], r.code[3]>>
                          \in {<<0, 0, 0>>, <<0, 0, 2>>, <<3, 0, 0>>}
                /\ r.name \cap {"INDEX", "ETF", "BOND", "ST", "DELISTED",
                                "SUSPENDED", "PREFERRED"} = {}
        IN  /\ \A j \in 1..Len(out) :
                  /\ Passes(out[j])
                  /\ \E k \in 1..Len(raw) : raw[k] = out[j]
                  /\ j > 1 => StrLess(out[j - 1].code, out[j].code)
            /\ \A j, k \in 1..Len(out) : j # k => out[j].code # out[k].code
            /\ \A k \in 1..Len(raw) :
                  Passes(raw[k]) => \E j \in 1..Len(out) : out[j].code = raw[k].code

\* a raw listing of "600000" with an excluded name, "600000" again with a
\* plain name and "000001" has been filtered to "000001", "600000"
C26_Witness ==
    /\ Returned("_smart_filter_stocks")
    /\ result[2] = <<[code |-> <<6, 0, 0, 0, 0, 0>>, name |-> {"BANK", "ST"}],
                     [code |-> <<6, 0, 0, 0, 0, 0>>, name |-> {"BANK"}],
                     [code |-> <<0, 0, 0, 0, 0, 1>>, name |-> {"BANK"}]>>
    /\ result[3] = <<[code |-> <<0, 0, 0, 0, 0, 1>>, name |-> {"BANK"}],
                     [code |-> <<6, 0, 0, 0, 0, 0>>, name |-> {"BANK"}]>>

\* A run of the manager with a cap of the set given goes into its batches
\* with the first min(max_stocks, N) instruments of a universe 1..N when the
\* cap is applied, with all N when it is not, and a task for each of them.
CapTruncates(given, applied) ==
    (engine = "manager" /\ pc = "start" /\ pc' = "submit") =>
        \A force_update \in BOOLEAN, max_stocks \in given, saved \in BOOLEAN,
           listed \in 0..MaxBatch :
           LET N == ListingSize(force_update, listed)
               head == IF applied /\ max_stocks < N THEN max_stocks ELSE N
           IN  DownloadAllMarketData(force_update, max_stocks, batch_size',
                                     max_workers', end_date', listed, saved)
               => /\ stocks' = [c \in 1..head |-> c]
                  /\ DOMAIN task' = 1..head

\* C27 as stated: with any cap c that is given (any value but None), the run
\* processes exactly the first min(c, N) instruments of the universe.
C27_AnyCapTruncates ==
    [][CapTruncates(Caps \ {None_}, TRUE)]_vars

\* C27: with a positive cap c the run processes exactly the first min(c, N)
\* instruments of the universe and no others; with a cap that is None or not
\* positive it processes the whole universe.
C27_PositiveCapTruncates ==
    [][/\ CapTruncates(1..MaxStocks, TRUE)
       /\ CapTruncates({None_, -1}, FALSE)]_vars

\* a run of the manager on a listing of two instruments has gone into its
\* batches with the first one only
C27_Witness ==
    /\ engine = "manager"
    /\ pc = "submit"
    /\ i = 0
    /\ today \in DOMAIN files.list
    /\ files.list[today] = 2
    /\ stocks = <<1>>
    /\ DOMAIN task = {1}

\* C30: an explicit date argument in an invalid format makes either entry
\* point return a failure (a code that is not the 0 or the None of a run
\* that went well) with no manager constructed, no listing, no fetch and no
\* write: the files, the metadata, the universe and the tasks are as they
\* were.
C30_InvalidDateRejected ==
    [][\A date \in DateArgs :
          (date.format \notin {"absent", "%Y-%m-%d"} /\ Main(date)) =>
              /\ pc' = "returned"
              /\ result'[2] = 1
              /\ files' = files
              /\ metadata' = metadata
              /\ stocks' = <<>>
              /\ task' = <<>>]_vars

\* the bars of the local file that are dated on or before the as-of date
\* of the run (all of them when the run has no as-of date); none when the
\* file is absent or has no date column
LocalBars ==
    LET local == result[2]
        OnOrBefore(b) == end_date = None_ \/ (b.date # NaT /\ b.date <= end_date)
    IN  IF local.kind = "frame" /\ local.frame.hasDate
        THEN SelectSeq(local.frame.bars, OnOrBefore)
        ELSE <<>>

C32_AccumulatorsPartitionUniverse ==
    /\ \A k \in 1..Len(metadata.update_history) :
          LET e == metadata.update_history[k]
          IN  e.successful + e.failed = e.total_stocks
    /\ (engine = "manager" /\ pc = "done") =>
          LET failed == {all_failed[k] : k \in 1..Len(all_failed)}
          IN  /\ failed \cap DOMAIN all_data = {}
              /\ failed \cup DOMAIN all_data = 1..Len(stocks)
              /\ Cardinality(failed) = Len(all_failed)
              /\ successful_count = Cardinality(DOMAIN all_data)

\* a run of the manager over three instruments has returned with some in the
\* accumulator and some on the failure list, and its entry is in the history
C32_Witness ==
    /\ engine = "manager"
    /\ pc = "done"
    /\ Len(stocks) = 3
    /\ DOMAIN all_data # {}
    /\ all_failed # <<>>
    /\ Len(metadata.update_history) = 1
    /\ metadata.update_history[1].total_stocks = 3

\* C39: _should_update_data never returns its "undetermined" outcome: on a
\* Saturday or a Sunday the search backwards meets a weekday after at most 2
\* steps, so the call returns from inside the loop.
C39_UndeterminedUnreachable ==
    Returned("_should_update_data") =>
        /\ result[3] # "undetermined"
        /\ (metadata.last_update # None_ /\ weekday(today) >= 5) =>
              /\ result[3] \in {"fresh_weekend", "stale_weekend"}
              /\ \E k \in 1..2 : weekday(today - k) < 5

\* a call on a Sunday, two steps after the Friday, has returned from inside
\* the loop
C39_Witness ==
    /\ Returned("_should_update_data")
    /\ weekday(today) = 6
    /\ result[3] = "fresh_weekend"

\* C33: the step that ends a run of the manager that got past the listing
\* sets last_update to the date key of the run (the as-of date, else today),
\* whatever the run acquired and whether or not its snapshot was written;
\* so after a run for today _should_update_data returns false that day, and
\* a run for an as-of date earlier than the recorded last_update moves
\* last_update backwards.
C33_LastUpdateIsRunDate ==
    [][(engine = "manager" /\ pc = "meta" /\ pc' = "done") =>
          /\ metadata'.last_update = (IF end_date # None_ THEN end_date ELSE today)
          /\ end_date = None_ => ~ShouldUpdateData(metadata', today)
          /\ (/\ end_date # None_
              /\ metadata.last_update # None_
              /\ end_date < metadata.last_update)
             => metadata'.last_update < metadata.last_update]_vars

\* after a run for today, a run for yesterday that acquired nothing and
\* wrote no snapshot has returned: last_update is yesterday
C33_Witness ==
    /\ engine = "manager"
    /\ pc = "done"
    /\ stocks # <<>>
    /\ all_data = EmptyMap
    /\ end_date = today - 1
    /\ end_date \notin DOMAIN files.snap
    /\ Len(metadata.update_history) = 2
    /\ metadata.update_history[1].date = today
    /\ metadata.last_update = today - 1

\* A run of the manager is started with neither force_update nor an as-of
\* date while _should_update_data returns false.
UnforcedFreshRun ==
    /\ engine = "manager"
    /\ pc = "start"
    /\ ~ShouldUpdateData(metadata, today)
    /\ \E max_stocks \in Caps, listed \in 0..1 :
          DownloadAllMarketData(FALSE, max_stocks, 1, 1, None_, listed, TRUE)

\* C34 as stated: a run started with neither force_update nor an as-of date
\* while _should_update_data returns false, on a weekday or a weekend, asks
\* the provider for nothing, leaves the metadata and the files of the cache
\* as they were and returns the snapshot of the cache.
C34_FreshRunReturnsCache ==
    [][UnforcedFreshRun =>
          /\ pc' = "done"
          /\ task' = <<>>
          /\ metadata' = metadata
          /\ files' = files
          /\ result' # EmptyMap
          /\ result' \in {files.snap[d] : d \in DOMAIN files.snap}]_vars

\* C35 as stated: a run started from download_market_data.py without
\* --end-date (the only runs of the entry point whose date is today) is a
\* default run of the manager: when it is not forced and the cache is
\* current it returns the cache without fetching, and the entry it appends
\* to the update history has is_historical = false.
C35_NoEndDateIsDefaultRun ==
    [][(engine = "manager" /\ end_date = today) =>
          /\ (/\ pc = "start"
              /\ ~ShouldUpdateData(metadata, today)
              /\ LoadExistingData # EmptyMap
              /\ \E max_stocks \in Caps, listed \in 0..1 :
                    DownloadAllMarketData(FALSE, max_stocks, 1, 1, end_date, listed, TRUE))
             => (pc' = "done" /\ result' = LoadExistingData /\ files' = files)
          /\ (pc = "meta" /\ pc' = "done")
             => ~metadata'.update_history[Len(metadata'.update_history)].is_historical]_vars

\* C36: when a run of the manager with the date key d has written its
\* snapshot, what get_market_data(d) reads is exactly the accumulator of
\* that run, whatever snapshot the key had before; and the rest of the run
\* leaves the snapshots as they are.
C36_SnapshotIsLastAccumulator ==
    [][/\ SaveSnapshot(TRUE) =>
             /\ DataDate \in DOMAIN files'.snap
             /\ DataDate \notin files'.corrupt
             /\ files'.snap[DataDate] = all_data
             /\ \A d \in DOMAIN files.snap \ {DataDate} :
                   d \in DOMAIN files'.snap /\ files'.snap[d] = files.snap[d]
       /\ (engine = "manager" /\ pc = "meta" /\ pc' = "done") =>
             /\ files'.snap = files.snap
             /\ result' = all_data]_vars

\* two runs with the same date key are recorded, the first acquired the
\* instrument and the second nothing: the snapshot of the key is the empty
\* accumulator of the second
C36_Witness ==
    /\ engine = "manager"
    /\ pc = "done"
    /\ Len(metadata.update_history) = 2
    /\ metadata.update_history[1].date = metadata.update_history[2].date
    /\ metadata.update_history[1].successful = 1
    /\ metadata.update_history[2].successful = 0
    /\ all_data = EmptyMap
    /\ metadata.last_update \in DOMAIN files.snap
    /\ files.snap[metadata.last_update] = EmptyMap

\* C37 as stated: in the pipeline of main, once the download step has
\* written a snapshot of the date that holds an instrument, the selection
\* never asks the provider for that instrument.
C37_SelectionUsesSnapshot ==
    engine = "selector" =>
        \A c \in Codes :
            (/\ end_date \in DOMAIN files.snap
             /\ c \in DOMAIN files.snap[end_date])
            => (task[c].st # "running" /\ task[c].counts = <<>>)

\* C38: a run of the manager that has entered its batch loop eventually
\* returns, with the metadata updated for the date key of the run and the
\* accumulator as its result.
C38_RunTerminates ==
    (engine = "manager" /\ pc = "submit")
        ~> (pc = "done" /\ metadata.last_update = DataDate /\ result = all_data)

\* a run of the manager in two batches has returned, with an instrument that
\* failed after all its attempts
C38_Witness ==
    /\ engine = "manager"
    /\ pc = "done"
    /\ Len(stocks) = 2
    /\ batch_size = 1
    /\ all_failed # <<>>
    /\ metadata.last_update = DataDate

====
